---- MODULE Spec2Model ----
(***************************************************************************)
(* Attempt ledger of the Draci smycka scoring server.                      *)
(*                                                                         *)
(* The model follows the two Express handlers that write the attempts      *)
(* table, POST /judge/attempts (recordAttempt) and                         *)
(* PUT /calculator/attempts/:attemptId (amendAttempt), step by step: each  *)
(* `await` on the storage client is one atomic step, so requests served    *)
(* concurrently interleave between their storage calls.  The attempts      *)
(* table carries the constraints of schema.sql; the audit log is the       *)
(* attempt_audit_logs table in insertion order.                            *)
(***************************************************************************)
EXTENDS Integers, Sequences, FiniteSets, TLC

\* ------------------------------------------------------------------------
\* Bounds of the model

\* Number of requests that are started in one behaviour.
MaxCalls == 3

\* Request slots that are served concurrently; a request that arrives takes
\* the first free slot.
Procs == {1, 2}

\* ------------------------------------------------------------------------
\* Values

\* SQL NULL / JS null / undefined: the empty option.  Some(v) is a value.
Null == <<>>

Some(v) == <<v>>

MAX_TIME_CENTISECONDS == 20 * 60 * 100

\* Catalogue: competitors(id, event_id, category_code) as registered before
\* the first request.
Competitors ==
  { [id |-> "c1", event_id |-> "e1", category_code |-> "N"],
    [id |-> "c2", event_id |-> "e1", category_code |-> "M"],
    [id |-> "c3", event_id |-> "e2", category_code |-> "N"] }

CompetitorIds == {c.id : c \in Competitors}

\* Table categories(event_id, code).
CategoryRows ==
  {[event_id |-> e, code |-> c] : e \in {"e1", "e2"}, c \in {"N", "M"}}

\* Table competitors as registered before the first request: the start
\* numbers are unique per event and no access token has been issued.
CompetitorRows ==
  { [id |-> c.id, event_id |-> c.event_id, category_code |-> c.category_code,
     start_number |-> IF c.id = "c2" THEN Some(2) ELSE Some(1),
     qr_token |-> Null] : c \in Competitors }

\* The values generateTokenCandidate() draws from.
Tokens == {"T1", "T2"}

NodeIds == {"n1", "n3"}

\* Actor contexts that authenticate() puts in req.auth (from the access token).
Actors ==
  { [userId |-> "u1", role |-> "judge", eventId |-> "e1",
     nodeIds |-> {"n1"}, allowedCategories |-> {"N"}],
    [userId |-> "u2", role |-> "judge", eventId |-> "e2",
     nodeIds |-> {"n3"}, allowedCategories |-> {"M"}],
    [userId |-> "u3", role |-> "calculator", eventId |-> "e1",
     nodeIds |-> {}, allowedCategories |-> {}],
    [userId |-> "u4", role |-> "admin", eventId |-> "e2",
     nodeIds |-> {}, allowedCategories |-> {}] }

\* The admin of event e1, who makes requests where requests are served one
\* at a time.
EventAdmins ==
  { [userId |-> "u5", role |-> "admin", eventId |-> "e1",
     nodeIds |-> {}, allowedCategories |-> {}] }

\* Request bodies.  centiseconds -1 and MAX+1 and the empty fault code are
\* the malformed ones; attempt number 3 is outside min(1).max(2).
CsInputs == {-1, MAX_TIME_CENTISECONDS, MAX_TIME_CENTISECONDS + 1}

FaultInputs == {"", "333"}

ResultInputs ==
  {[kind |-> "time", centiseconds |-> v] : v \in CsInputs}
    \cup {[kind |-> "fault", faultCode |-> f] : f \in FaultInputs}

AttemptNumberInputs == {1, 2, 3}

\* A judge's submission carries a note with a fault and none with a time.
JudgeNote(result) == IF result.kind = "fault" THEN Some("note") ELSE Null

AttemptPayloads ==
  { [competitorId |-> c, nodeId |-> n, attemptNumber |-> k, result |-> r,
     note |-> JudgeNote(r)] :
      c \in CompetitorIds, n \in NodeIds, k \in AttemptNumberInputs,
      r \in ResultInputs }

\* Attempt ids are uuids generated by the database: fresh on every insert.
\* 0 stands for a path parameter that is not a uuid.
AttemptIdInputs == 0 .. MaxCalls

\* A correction carries a note with a time and none with a fault, so that a
\* correction both replaces and clears the notes judges leave.
CalculatorNote(result) == IF result.kind = "time" THEN Some("fixed") ELSE Null

UpdatePayloads ==
  { [result |-> r, note |-> CalculatorNote(r)] : r \in ResultInputs }

\* ------------------------------------------------------------------------
\* State

VARIABLES
  attempts,   \* table attempts: a set of rows
  audit,      \* table attempt_audit_logs, in insertion order
  nextId,     \* the next fresh attempt id
  calls,      \* number of requests started so far
  pc,         \* per request slot: the storage call it is waiting for
  req,        \* per request slot: req.auth and the parsed request
  loc,        \* per request slot: the handler's local constants
  sent,       \* the response sent by the last step
  rankings,   \* the rows last read from the ranking views
  competitors, \* table competitors: a set of rows
  qr_tokens,  \* table qr_tokens: a set of rows
  editing,    \* the centiseconds of the attempt opened in the attempt form
  timeValue,  \* the text in the time field of the attempt form
  parsed,     \* what the form last made of the time field
  sessions,   \* table user_sessions: a set of rows
  now,        \* Date.now(), in clock ticks
  issued      \* the refresh tokens handed out in responses

vars == <<attempts, audit, nextId, calls, pc, req, loc, sent, rankings, competitors, qr_tokens, editing, timeValue, parsed, sessions, now, issued>>

\* The state of the attempt form in the browser.
pageVars == <<editing, timeValue, parsed>>

\* The state of the sessions of /auth.
authVars == <<sessions, now, issued>>

NoReq == [route |-> "none"]

NoLoc ==
  [createdAttempt |-> Null, attempt |-> Null, updatedAttempt |-> Null,
   competitor |-> Null, updatedCompetitor |-> Null, token |-> Null,
   session |-> Null, accessToken |-> Null, refreshToken |-> Null,
   refreshExpiresAt |-> Null, event |-> Null, competitorMap |-> Null,
   categoryLeaderboardResponse |-> Null, nodeRankingsResponse |-> Null]

\* The form has not read its time field.
NotParsed == [done |-> FALSE, value |-> Null]

\* No response was sent by the last step.
NoRes == [slot |-> 0, request |-> NoReq, status |-> 0, error |-> "none",
          attempt |-> Null]

\* The response of slot p: res.status(status).json(...).  The request is
\* noted with the answer when it is answered straight from the state in
\* which it arrived, before any storage call has answered.
Response(p, status, error, attempt) ==
  [slot |-> p,
   request |-> IF pc[p] = "arrived" THEN req[p] ELSE NoReq,
   status |-> status, error |-> error, attempt |-> attempt]

\* ------------------------------------------------------------------------
\* Errors and responses

HttpError(status, message) ==
  [http |-> TRUE, status |-> status, message |-> message]

\* What zod's parse() throws: not an HttpError.
ZodError == [http |-> FALSE, status |-> 0, message |-> "ZodError"]

\* errorHandler: an HttpError is answered with its status and message,
\* anything else with 500 'Internal server error'.
errorHandler(p, error) ==
  IF error.http
    THEN Response(p, error.status, error.message, Null)
    ELSE Response(p, 500, "Internal server error", Null)

\* The request of slot p ends with response r.
Finish(p, r) ==
  /\ pc' = [pc EXCEPT ![p] = "idle"]
  /\ req' = [req EXCEPT ![p] = NoReq]
  /\ loc' = [loc EXCEPT ![p] = NoLoc]
  /\ sent' = r

\* catch (error) { next(error) }
Throw(p, error) == Finish(p, errorHandler(p, error))

\* The handler of slot p continues at storage call l with locals updated.
Goto(p, l, newLoc) ==
  /\ pc' = [pc EXCEPT ![p] = l]
  /\ loc' = [loc EXCEPT ![p] = newLoc]
  /\ sent' = NoRes
  /\ UNCHANGED req

\* A request that arrives is served in the first free slot.
FirstFree(p) == pc[p] = "idle" /\ \A q \in Procs : q < p => pc[q] # "idle"

\* requireRole(...roles)
requireRole(roles, auth) == auth.role \in roles

\* ------------------------------------------------------------------------
\* Schemas

\* Variant: a time is only required not to be negative.
ResultValid_NoCeiling(result) ==
  IF result.kind = "time"
    THEN result.centiseconds >= 0
    ELSE result.faultCode # ""

ResultValid(result) ==
  IF result.kind = "time"
    THEN result.centiseconds >= 0 /\ result.centiseconds <= MAX_TIME_CENTISECONDS
    ELSE result.faultCode # ""

attemptPayloadSchema(payload) ==
  /\ payload.attemptNumber >= 1
  /\ payload.attemptNumber <= 2
  /\ ResultValid(payload.result)

attemptUpdateSchema(payload) == ResultValid(payload.result)

\* ------------------------------------------------------------------------
\* The attempts table

\* Variant: the table is unique on its primary key only.
UniqueViolation_IdOnly(row) == \E r \in attempts : r.id = row.id

\* unique (event_id, competitor_id, node_id, attempt_number)
UniqueViolation(row) ==
  \E r \in attempts :
    /\ r.event_id = row.event_id
    /\ r.competitor_id = row.competitor_id
    /\ r.node_id = row.node_id
    /\ r.attempt_number = row.attempt_number

\* attempts_attempt_number_check and attempts_time_check
CheckConstraints(row) ==
  /\ row.attempt_number \in {1, 2}
  /\ \/ row.result_kind = "time" /\ row.centiseconds # Null
     \/ row.result_kind # "time" /\ row.centiseconds = Null

\* Variant: the attempts of the competitor at every node are loaded.
loadAttempts_AnyNode(competitorId, nodeId) ==
  {r \in attempts : r.competitor_id = competitorId}

\* loadAttempts(competitorId, [nodeId])
loadAttempts(competitorId, nodeId) ==
  {r \in attempts : r.competitor_id = competitorId /\ r.node_id = nodeId}

\* Variant: a time is stored without its centiseconds.
ResultColumns_TimeWithoutValue(result) ==
  IF result.kind = "time"
    THEN [result_kind |-> "time", centiseconds |-> Null, fault_code |-> Null]
    ELSE [result_kind |-> "fault", centiseconds |-> Null,
          fault_code |-> Some(result.faultCode)]

\* The columns the handlers derive from payload.result.
ResultColumns(result) ==
  IF result.kind = "time"
    THEN [result_kind |-> "time", centiseconds |-> Some(result.centiseconds),
          fault_code |-> Null]
    ELSE [result_kind |-> "fault", centiseconds |-> Null,
          fault_code |-> Some(result.faultCode)]

\* Variant: the insert leaves locked to the column default (false) and
\* relies on the lock update that follows.
InsertPayload_DefaultLock(id, auth, payload) ==
  LET rc == ResultColumns(payload.result) IN
  [id |-> id,
   event_id |-> auth.eventId,
   competitor_id |-> payload.competitorId,
   node_id |-> payload.nodeId,
   attempt_number |-> payload.attemptNumber,
   result_kind |-> rc.result_kind,
   centiseconds |-> rc.centiseconds,
   fault_code |-> rc.fault_code,
   note |-> payload.note,
   locked |-> FALSE,
   recorded_by |-> Some(auth.userId),
   recorded_role |-> Some(auth.role)]

\* insertPayload of POST /attempts, with the id the database generates.
InsertPayload(id, auth, payload) ==
  LET rc == ResultColumns(payload.result) IN
  [id |-> id,
   event_id |-> auth.eventId,
   competitor_id |-> payload.competitorId,
   node_id |-> payload.nodeId,
   attempt_number |-> payload.attemptNumber,
   result_kind |-> rc.result_kind,
   centiseconds |-> rc.centiseconds,
   fault_code |-> rc.fault_code,
   note |-> payload.note,
   locked |-> TRUE,
   recorded_by |-> Some(auth.userId),
   recorded_role |-> Some(auth.role)]

\* Variant: the update writes result_kind and centiseconds and leaves
\* fault_code as it was.
ApplyUpdate_KeepFaultCode(row, payload) ==
  LET rc == ResultColumns(payload.result) IN
  [row EXCEPT !.result_kind = rc.result_kind,
              !.locked = TRUE,
              !.note = payload.note,
              !.centiseconds = rc.centiseconds]

\* Variant: a correction without a note leaves the note of the row.
ApplyUpdate_KeepNote(row, payload) ==
  LET rc == ResultColumns(payload.result) IN
  [row EXCEPT !.result_kind = rc.result_kind,
              !.locked = TRUE,
              !.note = IF payload.note = Null THEN row.note ELSE payload.note,
              !.centiseconds = rc.centiseconds,
              !.fault_code = rc.fault_code]

\* updatePayload of PUT /attempts/:attemptId applied to a row.
ApplyUpdate(row, payload) ==
  LET rc == ResultColumns(payload.result) IN
  [row EXCEPT !.result_kind = rc.result_kind,
              !.locked = TRUE,
              !.note = payload.note,
              !.centiseconds = rc.centiseconds,
              !.fault_code = rc.fault_code]

\* Variant: the entry names the user who recorded the attempt instead of the
\* user who makes the change.
AuditRow_RecorderAsActor(eventId, attemptId, competitorId, nodeId, attemptNumber, action, previousValue, newValue, auth) ==
  [event_id |-> eventId,
   attempt_id |-> attemptId,
   competitor_id |-> competitorId,
   node_id |-> nodeId,
   attempt_number |-> attemptNumber,
   action |-> action,
   previous_value |-> previousValue,
   new_value |-> newValue,
   changed_by |-> newValue[1].recorded_by[1],
   changed_role |-> newValue[1].recorded_role[1]]

\* insertAuditLog(payload): the row appended to attempt_audit_logs.
AuditRow(eventId, attemptId, competitorId, nodeId, attemptNumber, action, previousValue, newValue, auth) ==
  [event_id |-> eventId,
   attempt_id |-> attemptId,
   competitor_id |-> competitorId,
   node_id |-> nodeId,
   attempt_number |-> attemptNumber,
   action |-> action,
   previous_value |-> previousValue,
   new_value |-> newValue,
   changed_by |-> auth.userId,
   changed_role |-> auth.role]

\* ------------------------------------------------------------------------
\* Initial state

Init ==
  /\ attempts = {}
  /\ audit = <<>>
  /\ nextId = 1
  /\ calls = 0
  /\ pc = [p \in Procs |-> "idle"]
  /\ req = [p \in Procs |-> NoReq]
  /\ loc = [p \in Procs |-> NoLoc]
  /\ sent = NoRes
  /\ rankings = Null
  /\ competitors = CompetitorRows
  /\ qr_tokens = {}
  /\ editing = Null
  /\ timeValue = <<>>
  /\ parsed = NotParsed
  /\ sessions = {}
  /\ now = 0
  /\ issued = {}

\* ------------------------------------------------------------------------
\* POST /judge/attempts

\* The competitor query of POST /attempts: .eq('id').eq('event_id').
FindCompetitor(competitorId, eventId) ==
  {c \in competitors : c.id = competitorId /\ c.event_id = eventId}

\* Variant: ensureCompetitorAllowed is applied before the node check.
ScopeError_CategoryFirst(auth, payload) ==
  IF ~requireRole({"judge"}, auth)
    THEN Some(HttpError(403, "Forbidden"))
  ELSE IF ~attemptPayloadSchema(payload)
    THEN Some(ZodError)
  ELSE IF \E c \in FindCompetitor(payload.competitorId, auth.eventId) :
            c.category_code \notin auth.allowedCategories
    THEN Some(HttpError(403, "Competitor category not allowed"))
  ELSE IF payload.nodeId \notin auth.nodeIds
    THEN Some(HttpError(403, "Node is not assigned to judge"))
  ELSE IF FindCompetitor(payload.competitorId, auth.eventId) = {}
    THEN Some(HttpError(404, "Competitor not found"))
  ELSE Null

\* Variant: the handler does not compare payload.nodeId with req.auth.nodeIds.
ScopeError_NoNodeCheck(auth, payload) ==
  IF ~requireRole({"judge"}, auth)
    THEN Some(HttpError(403, "Forbidden"))
  ELSE IF ~attemptPayloadSchema(payload)
    THEN Some(ZodError)
  ELSE IF FindCompetitor(payload.competitorId, auth.eventId) = {}
    THEN Some(HttpError(404, "Competitor not found"))
  ELSE IF \E c \in FindCompetitor(payload.competitorId, auth.eventId) :
            c.category_code \notin auth.allowedCategories
    THEN Some(HttpError(403, "Competitor category not allowed"))
  ELSE Null

\* The checks that router.use(requireRole('judge')) and the handler make
\* before the attempts are loaded, in the order of the code: the first one
\* that fails is the error thrown, Null when all pass.
ScopeError(auth, payload) ==
  IF ~requireRole({"judge"}, auth)
    THEN Some(HttpError(403, "Forbidden"))
  ELSE IF ~attemptPayloadSchema(payload)
    THEN Some(ZodError)
  ELSE IF payload.nodeId \notin auth.nodeIds
    THEN Some(HttpError(403, "Node is not assigned to judge"))
  ELSE IF FindCompetitor(payload.competitorId, auth.eventId) = {}
    THEN Some(HttpError(404, "Competitor not found"))
  ELSE IF \E c \in FindCompetitor(payload.competitorId, auth.eventId) :
            c.category_code \notin auth.allowedCategories
    THEN Some(HttpError(403, "Competitor category not allowed"))
  ELSE Null

\* The competitor query is the handler's first storage call: it is reached
\* once the role, the body and the node have passed.
ReachesCompetitorQuery(auth, payload) ==
  /\ requireRole({"judge"}, auth)
  /\ attemptPayloadSchema(payload)
  /\ payload.nodeId \in auth.nodeIds

\* The request is served up to the point where the attempts are loaded.  The
\* catalogue does not change while attempts are taken, so the competitor
\* query is not an interleaving point.
PostAttemptsRequest(p, auth, payload) ==
  \/ /\ ReachesCompetitorQuery(auth, payload)
     /\ Throw(p, HttpError(500, "Competitor not found"))
  \/ IF ScopeError(auth, payload) # Null
       THEN Throw(p, ScopeError(auth, payload)[1])
       ELSE /\ pc' = [pc EXCEPT ![p] = "load"]
            /\ req' = [req EXCEPT ![p] =
                         [route |-> "post", auth |-> auth, payload |-> payload]]
            /\ loc' = [loc EXCEPT ![p] = NoLoc]
            /\ sent' = NoRes

\* A POST /judge/attempts request arrives and is served up to its first
\* interleaving point.  The body of a request that requireRole turns away is
\* never read, so one body stands for all of them.
PostAttemptsBegin(p) ==
  /\ FirstFree(p)
  /\ UNCHANGED <<rankings, competitors, qr_tokens, pageVars, authVars>>
  /\ calls < MaxCalls
  /\ calls' = calls + 1
  /\ UNCHANGED <<attempts, audit, nextId>>
  /\ \E auth \in Actors :
       \E payload \in IF requireRole({"judge"}, auth)
                        THEN AttemptPayloads
                        ELSE {CHOOSE b \in AttemptPayloads : TRUE} :
         PostAttemptsRequest(p, auth, payload)

\* Variant: a second attempt 2 is left to the table's unique constraint.
LifecycleError_NoAttempt2Check(existing, attemptNumber) ==
  LET attempt1 == {a \in existing : a.attempt_number = 1}
  IN IF attemptNumber = 1
       THEN IF attempt1 # {} THEN Some("Attempt 1 already exists") ELSE Null
     ELSE IF attempt1 = {} THEN Some("Attempt 1 must be recorded first")
     ELSE IF \E a \in attempt1 : ~a.locked THEN Some("Attempt 1 is not locked yet")
     ELSE Null

\* Variant: attempt 2 is only checked against an existing attempt 2.
LifecycleError_NoAttempt1Check(existing, attemptNumber) ==
  LET attempt1 == {a \in existing : a.attempt_number = 1}
      attempt2 == {a \in existing : a.attempt_number = 2}
  IN IF attemptNumber = 1
       THEN IF attempt1 # {} THEN Some("Attempt 1 already exists") ELSE Null
     ELSE IF attempt2 # {} THEN Some("Attempt 2 already exists")
     ELSE Null

\* loadAttempts answers and the attempt-number rules are applied to it.
LifecycleError(existing, attemptNumber) ==
  LET attempt1 == {a \in existing : a.attempt_number = 1}
      attempt2 == {a \in existing : a.attempt_number = 2}
  IN IF attemptNumber = 1
       THEN IF attempt1 # {} THEN Some("Attempt 1 already exists") ELSE Null
     ELSE IF attempt1 = {} THEN Some("Attempt 1 must be recorded first")
     ELSE IF \E a \in attempt1 : ~a.locked THEN Some("Attempt 1 is not locked yet")
     ELSE IF attempt2 # {} THEN Some("Attempt 2 already exists")
     ELSE Null

PostAttemptsLoad(p) ==
  /\ pc[p] = "load"
  /\ UNCHANGED <<rankings, competitors, qr_tokens, pageVars, authVars>>
  /\ UNCHANGED <<attempts, audit, nextId, calls>>
  /\ LET payload == req[p].payload
         existing == loadAttempts(payload.competitorId, payload.nodeId)
         err == LifecycleError(existing, payload.attemptNumber)
     IN \/ Throw(p, HttpError(500, "Failed to load attempts"))
        \/ IF err # Null
             THEN Throw(p, HttpError(409, err[1]))
             ELSE Goto(p, "insert", loc[p])

\* Variant: insert ... on conflict do update.
InsertAttempt_Upsert(row) ==
  IF ~CheckConstraints(row)
    THEN attempts
    ELSE {r \in attempts : ~( /\ r.event_id = row.event_id
                              /\ r.competitor_id = row.competitor_id
                              /\ r.node_id = row.node_id
                              /\ r.attempt_number = row.attempt_number )}
           \cup {row}

\* The insert answers: a unique violation (23505) is a 409, any other
\* storage error a 500; otherwise the row is stored and returned.
InsertAttempt(row) ==
  IF UniqueViolation(row) \/ ~CheckConstraints(row)
    THEN attempts
    ELSE attempts \cup {row}

PostAttemptsInsert(p) ==
  /\ pc[p] = "insert"
  /\ UNCHANGED <<rankings, competitors, qr_tokens, pageVars, authVars>>
  /\ UNCHANGED <<audit, calls>>
  /\ LET row == InsertPayload(nextId, req[p].auth, req[p].payload)
         stored == InsertAttempt(row)
     IN
       \/ /\ Throw(p, HttpError(500, "Failed to insert attempt"))
          /\ UNCHANGED <<attempts, nextId>>
       \/ IF row \notin stored
            THEN /\ IF UniqueViolation(row)
                      THEN Throw(p, HttpError(409, "Attempt already exists"))
                      ELSE Throw(p, HttpError(500, "Failed to insert attempt"))
                 /\ UNCHANGED <<attempts, nextId>>
            ELSE /\ attempts' = stored
                 /\ nextId' = nextId + 1
                 /\ Goto(p, IF req[p].payload.attemptNumber = 1 THEN "lock" ELSE "audit",
                         [loc[p] EXCEPT !.createdAttempt = Some(row)])

\* "Ensure attempt 1 is locked after insert."
LockAttempt1(competitorId, nodeId) ==
  { IF r.competitor_id = competitorId /\ r.node_id = nodeId /\ r.attempt_number = 1
      THEN [r EXCEPT !.locked = TRUE]
      ELSE r : r \in attempts }

PostAttemptsLock(p) ==
  /\ pc[p] = "lock"
  /\ UNCHANGED <<rankings, competitors, qr_tokens, pageVars, authVars>>
  /\ UNCHANGED <<audit, nextId, calls>>
  /\ \/ /\ Throw(p, HttpError(500, "Failed to lock attempt 1"))
        /\ UNCHANGED attempts
     \/ /\ attempts' = LockAttempt1(req[p].payload.competitorId, req[p].payload.nodeId)
        /\ Goto(p, "audit", loc[p])

\* Variant: the error of insertAuditLog is swallowed and the handler answers
\* 201 with the attempt.
PostAttemptsAudit_IgnoreAuditError(p) ==
  /\ pc[p] = "audit"
  /\ UNCHANGED <<rankings, competitors, qr_tokens, pageVars, authVars>>
  /\ req[p].route = "post"
  /\ UNCHANGED <<attempts, nextId, calls>>
  /\ LET auth == req[p].auth
         payload == req[p].payload
         createdAttempt == loc[p].createdAttempt[1]
     IN \/ /\ Finish(p, Response(p, 201, "none", Some(createdAttempt)))
           /\ UNCHANGED audit
        \/ /\ audit' = Append(audit,
                AuditRow(auth.eventId, createdAttempt.id, payload.competitorId,
                         payload.nodeId, payload.attemptNumber, "attempt_created",
                         Null, Some(createdAttempt), auth))
           /\ Finish(p, Response(p, 201, "none", Some(createdAttempt)))

\* insertAuditLog answers; on success the handler responds 201 at once.
PostAttemptsAudit(p) ==
  /\ pc[p] = "audit"
  /\ UNCHANGED <<rankings, competitors, qr_tokens, pageVars, authVars>>
  /\ req[p].route = "post"
  /\ UNCHANGED <<attempts, nextId, calls>>
  /\ LET auth == req[p].auth
         payload == req[p].payload
         createdAttempt == loc[p].createdAttempt[1]
     IN \/ /\ Throw(p, HttpError(500, "Failed to insert audit log"))
           /\ UNCHANGED audit
        \/ /\ audit' = Append(audit,
                AuditRow(auth.eventId, createdAttempt.id, payload.competitorId,
                         payload.nodeId, payload.attemptNumber, "attempt_created",
                         Null, Some(createdAttempt), auth))
           /\ Finish(p, Response(p, 201, "none", Some(createdAttempt)))

\* ------------------------------------------------------------------------
\* PUT /calculator/attempts/:attemptId

\* router.use(requireRole('calculator', 'admin')) and the handler up to its
\* first storage call: the path parameter and the body are parsed.
PutAttemptRequest(p, auth, attemptId, payload) ==
  IF ~requireRole({"calculator", "admin"}, auth)
    THEN Throw(p, HttpError(403, "Forbidden"))
  ELSE IF attemptId = 0 \/ ~attemptUpdateSchema(payload)
    THEN Throw(p, ZodError)
  ELSE /\ pc' = [pc EXCEPT ![p] = "select"]
       /\ req' = [req EXCEPT ![p] =
                    [route |-> "put", auth |-> auth,
                     attemptId |-> attemptId, payload |-> payload]]
       /\ loc' = [loc EXCEPT ![p] = NoLoc]
       /\ sent' = NoRes

\* A PUT /calculator/attempts/:attemptId request arrives.
PutAttemptBegin(p) ==
  /\ FirstFree(p)
  /\ UNCHANGED <<rankings, competitors, qr_tokens, pageVars, authVars>>
  /\ calls < MaxCalls
  /\ calls' = calls + 1
  /\ UNCHANGED <<attempts, audit, nextId>>
  /\ \E auth \in Actors :
       \E attemptId \in IF requireRole({"calculator", "admin"}, auth)
                          THEN AttemptIdInputs ELSE {0} :
         \E payload \in IF requireRole({"calculator", "admin"}, auth)
                          THEN UpdatePayloads
                          ELSE {CHOOSE b \in UpdatePayloads : TRUE} :
           PutAttemptRequest(p, auth, attemptId, payload)

\* Variant: the attempt is not compared with the caller's event.
PutAttemptSelect_AnyEvent(p) ==
  /\ pc[p] = "select"
  /\ UNCHANGED <<rankings, competitors, qr_tokens, pageVars, authVars>>
  /\ UNCHANGED <<attempts, audit, nextId, calls>>
  /\ LET found == {r \in attempts : r.id = req[p].attemptId} IN
       \/ Throw(p, HttpError(500, "Attempt not found"))
       \/ IF found = {}
            THEN Throw(p, HttpError(404, "Attempt not found"))
            ELSE Goto(p, "update",
                      [loc[p] EXCEPT !.attempt = Some(CHOOSE r \in found : TRUE)])

\* The attempt query answers: 404 when absent or of another event.
PutAttemptSelect(p) ==
  /\ pc[p] = "select"
  /\ UNCHANGED <<rankings, competitors, qr_tokens, pageVars, authVars>>
  /\ UNCHANGED <<attempts, audit, nextId, calls>>
  /\ LET found == {r \in attempts : r.id = req[p].attemptId} IN
       \/ Throw(p, HttpError(500, "Attempt not found"))
       \/ IF found = {} \/ \E r \in found : r.event_id # req[p].auth.eventId
            THEN Throw(p, HttpError(404, "Attempt not found"))
            ELSE Goto(p, "update",
                      [loc[p] EXCEPT !.attempt = Some(CHOOSE r \in found : TRUE)])

\* Variant: the correction replaces the row by a new one with a fresh id.
UpdateAttempt_NewRow(attemptId, payload) ==
  { IF r.id = attemptId
      THEN [ApplyUpdate(r, payload) EXCEPT !.id = nextId]
      ELSE r : r \in attempts }

\* The update answers with the row as stored.
UpdateAttempt(attemptId, payload) ==
  { IF r.id = attemptId THEN ApplyUpdate(r, payload) ELSE r : r \in attempts }

PutAttemptUpdate(p) ==
  /\ pc[p] = "update"
  /\ UNCHANGED <<rankings, competitors, qr_tokens, pageVars, authVars>>
  /\ UNCHANGED <<audit, nextId, calls>>
  /\ LET found == {r \in attempts : r.id = req[p].attemptId} IN
       \/ /\ Throw(p, HttpError(500, "Failed to update attempt"))
          /\ UNCHANGED attempts
       \/ IF found = {}
            THEN /\ Throw(p, HttpError(500, "Update did not return attempt"))
                 /\ UNCHANGED attempts
            ELSE /\ attempts' = UpdateAttempt(req[p].attemptId, req[p].payload)
                 /\ Goto(p, "audit",
                      [loc[p] EXCEPT !.updatedAttempt =
                         Some(ApplyUpdate(CHOOSE r \in found : TRUE, req[p].payload))])

\* insertAuditLog answers; on success the handler responds 200 at once.
PutAttemptAudit(p) ==
  /\ pc[p] = "audit"
  /\ UNCHANGED <<rankings, competitors, qr_tokens, pageVars, authVars>>
  /\ req[p].route = "put"
  /\ UNCHANGED <<attempts, nextId, calls>>
  /\ LET auth == req[p].auth
         attempt == loc[p].attempt[1]
         updatedAttempt == loc[p].updatedAttempt[1]
     IN \/ /\ Throw(p, HttpError(500, "Failed to insert audit log"))
           /\ UNCHANGED audit
        \/ /\ audit' = Append(audit,
                AuditRow(attempt.event_id, attempt.id, attempt.competitor_id,
                         attempt.node_id, attempt.attempt_number, "attempt_updated",
                         Some(attempt), Some(updatedAttempt), auth))
           /\ Finish(p, Response(p, 200, "none", Some(updatedAttempt)))

\* ------------------------------------------------------------------------
\* Specification

Next ==
  \E p \in Procs :
    \/ PostAttemptsBegin(p)
    \/ PostAttemptsLoad(p)
    \/ PostAttemptsInsert(p)
    \/ PostAttemptsLock(p)
    \/ PostAttemptsAudit(p)
    \/ PutAttemptBegin(p)
    \/ PutAttemptSelect(p)
    \/ PutAttemptUpdate(p)
    \/ PutAttemptAudit(p)

Spec == Init /\ [][Next]_vars

\* ------------------------------------------------------------------------
\* The requests one at a time, with the request held before it is served
\*
\* A second specification of the same handlers: one slot, and a request
\* is first held as it arrived (req.auth, req.params and req.body) and
\* served in the next step, so that the answer can be set against the
\* request that caused it.

PostAttemptsArrive(p) ==
  /\ pc[p] = "idle"
  /\ UNCHANGED <<rankings, competitors, qr_tokens, pageVars, authVars>>
  /\ calls < MaxCalls
  /\ calls' = calls + 1
  /\ \E auth \in Actors :
       \E payload \in IF requireRole({"judge"}, auth)
                        THEN AttemptPayloads
                        ELSE {CHOOSE b \in AttemptPayloads : TRUE} :
         req' = [req EXCEPT ![p] =
                   [route |-> "post", auth |-> auth, payload |-> payload]]
  /\ pc' = [pc EXCEPT ![p] = "arrived"]
  /\ sent' = NoRes
  /\ UNCHANGED <<attempts, audit, nextId, loc>>

PostAttemptsDispatch(p) ==
  /\ pc[p] = "arrived"
  /\ UNCHANGED <<rankings, competitors, qr_tokens, pageVars, authVars>>
  /\ req[p].route = "post"
  /\ PostAttemptsRequest(p, req[p].auth, req[p].payload)
  /\ UNCHANGED <<attempts, audit, nextId, calls>>

\* A PUT /calculator/attempts/:attemptId request held as it arrived.
PutAttemptArrive(p) ==
  /\ pc[p] = "idle"
  /\ UNCHANGED <<rankings, competitors, qr_tokens, pageVars, authVars>>
  /\ calls < MaxCalls
  /\ calls' = calls + 1
  /\ \E auth \in Actors \cup EventAdmins :
       \E attemptId \in IF requireRole({"calculator", "admin"}, auth)
                          THEN AttemptIdInputs ELSE {0} :
         \E payload \in IF requireRole({"calculator", "admin"}, auth)
                          THEN UpdatePayloads
                          ELSE {CHOOSE b \in UpdatePayloads : TRUE} :
           req' = [req EXCEPT ![p] =
                     [route |-> "put", auth |-> auth,
                      attemptId |-> attemptId, payload |-> payload]]
  /\ pc' = [pc EXCEPT ![p] = "arrived"]
  /\ sent' = NoRes
  /\ UNCHANGED <<attempts, audit, nextId, loc>>

PutAttemptDispatch(p) ==
  /\ pc[p] = "arrived"
  /\ UNCHANGED <<rankings, competitors, qr_tokens, pageVars, authVars>>
  /\ req[p].route = "put"
  /\ PutAttemptRequest(p, req[p].auth, req[p].attemptId, req[p].payload)
  /\ UNCHANGED <<attempts, audit, nextId, calls>>

NextOrder ==
  \E p \in {1} :
    \/ PostAttemptsArrive(p)
    \/ PostAttemptsDispatch(p)
    \/ PostAttemptsLoad(p)
    \/ PostAttemptsInsert(p)
    \/ PostAttemptsLock(p)
    \/ PostAttemptsAudit(p)
    \/ PutAttemptArrive(p)
    \/ PutAttemptDispatch(p)
    \/ PutAttemptSelect(p)
    \/ PutAttemptUpdate(p)
    \/ PutAttemptAudit(p)

SpecOrder == Init /\ [][NextOrder]_vars

\* ------------------------------------------------------------------------
\* Properties of the attempt ledger

\* The rows of one (competitor, node) pair with a given attempt number.
RowsOf(competitorId, nodeId, attemptNumber) ==
  {r \in attempts : /\ r.competitor_id = competitorId
                     /\ r.node_id = nodeId
                     /\ r.attempt_number = attemptNumber}

\* The slots whose request is a POST /attempts past the lifecycle rules: the
\* submission has been accepted for insertion.
AcceptedCreates == {p \in Procs : pc[p] = "insert"}

\* C1: an attempt-2 row exists only together with a locked attempt-1 row of
\* the same (competitor, node) pair, and a create(2) request is past the
\* lifecycle rules only when a locked attempt-1 row of its pair exists.
C1_Attempt2NeedsLockedAttempt1 ==
  /\ \A r \in attempts :
       r.attempt_number = 2 =>
         \E a \in RowsOf(r.competitor_id, r.node_id, 1) : a.locked
  /\ \A p \in AcceptedCreates :
       req[p].payload.attemptNumber = 2 =>
         \E a \in RowsOf(req[p].payload.competitorId, req[p].payload.nodeId, 1) :
           a.locked

\* An attempt 2 has just been created next to its attempt 1.
C1_Witness ==
  /\ sent.status = 201
  /\ sent.attempt # Null
  /\ \E r \in attempts : r.attempt_number = 2 /\ sent.attempt = Some(r)

\* C2: no two rows share (event, competitor, node, attemptNumber), and every
\* attempt number is 1 or 2.
C2_UniqueAttemptKey ==
  /\ \A r1, r2 \in attempts :
       ( /\ r1.event_id = r2.event_id
         /\ r1.competitor_id = r2.competitor_id
         /\ r1.node_id = r2.node_id
         /\ r1.attempt_number = r2.attempt_number ) => r1 = r2
  /\ \A r \in attempts : r.attempt_number \in {1, 2}

\* Two requests for the same key are both past the existence check while
\* the row of one of them is already stored.
C2_Witness ==
  \E p \in AcceptedCreates :
    /\ RowsOf(req[p].payload.competitorId, req[p].payload.nodeId,
              req[p].payload.attemptNumber) # {}
    /\ Cardinality(attempts) >= 2

\* C6: every row is either a time with centiseconds and no fault code, or a
\* fault with a fault code and no centiseconds.
C6_ResultShape ==
  \A r \in attempts :
    \/ r.result_kind = "time" /\ r.centiseconds # Null /\ r.fault_code = Null
    \/ r.result_kind = "fault" /\ r.centiseconds = Null /\ r.fault_code # Null

\* The log records corrections switching a row from time to fault and from
\* fault to time.
C6_Witness ==
  /\ \E i \in 1 .. Len(audit) :
       /\ audit[i].action = "attempt_updated"
       /\ audit[i].previous_value[1].result_kind = "time"
       /\ audit[i].new_value[1].result_kind = "fault"
  /\ \E i \in 1 .. Len(audit) :
       /\ audit[i].action = "attempt_updated"
       /\ audit[i].previous_value[1].result_kind = "fault"
       /\ audit[i].new_value[1].result_kind = "time"

\* C7: every row is locked, in every state, from its insertion on.
C7_AlwaysLocked == \A r \in attempts : r.locked

\* A row has just been inserted: neither the lock update nor the audit
\* insert of its request has run yet.
C7_Witness ==
  \E p \in Procs :
    /\ pc[p] = "lock"
    /\ loc[p].createdAttempt # Null
    /\ loc[p].createdAttempt[1] \in attempts

\* The stored rows with the key of the submission of slot p.
KeyTaken(p) ==
  RowsOf(req[p].payload.competitorId, req[p].payload.nodeId,
         req[p].payload.attemptNumber)

\* The storage call itself failed (connectivity and the like).
StorageFailure(r, message) == r.status = 500 /\ r.error = message

\* C3: a POST /attempts request past the existence check whose key has been
\* taken in the meantime ends at its insert: it is answered 409 'Attempt
\* already exists' (500 when the storage call itself fails), no row is
\* inserted and the stored row is not changed; a request whose key is free
\* adds its row and no other.
C3_LoserGetsConflict ==
  [][ \A p \in Procs :
        (pc[p] = "insert" /\ pc'[p] # "insert") =>
          IF KeyTaken(p) # {}
            THEN /\ attempts' = attempts
                 /\ audit' = audit
                 /\ nextId' = nextId
                 /\ pc'[p] = "idle"
                 /\ sent'.slot = p
                 /\ \/ sent'.status = 409 /\ sent'.error = "Attempt already exists"
                    \/ StorageFailure(sent', "Failed to insert attempt")
            ELSE \/ /\ attempts' = attempts
                    /\ sent'.slot = p
                    /\ StorageFailure(sent', "Failed to insert attempt")
                 \/ /\ attempts \subseteq attempts'
                    /\ Cardinality(attempts') = Cardinality(attempts) + 1
                    /\ KeyTaken(p)' = attempts' \ attempts
    ]_vars

\* The loser of a race for one key has just been answered 409.
C3_Witness ==
  /\ sent.status = 409
  /\ sent.error = "Attempt already exists"
  /\ attempts # {}

\* C4: when no request is in flight, every row has an attempt_created entry
\* with its id, and its content is the new value of an entry with its id.
C4_MutationAuditAtomic ==
  (\A p \in Procs : pc[p] = "idle") =>
    \A r \in attempts :
      /\ \E i \in 1 .. Len(audit) :
           audit[i].action = "attempt_created" /\ audit[i].attempt_id = r.id
      /\ \E i \in 1 .. Len(audit) :
           audit[i].attempt_id = r.id /\ audit[i].new_value = Some(r)

\* C5: the step that answers a request with success (201 created, 200
\* updated) appends exactly one audit entry, with the id of the attempt, the
\* action and the caller's user id and role; no other step changes the log.
C5_OneAuditEntryPerSuccess ==
  [][ /\ \A p \in Procs :
           (sent'.slot = p /\ sent'.status \in {200, 201}) =>
             /\ Len(audit') = Len(audit) + 1
             /\ SubSeq(audit', 1, Len(audit)) = audit
             /\ LET e == audit'[Len(audit')] IN
                  /\ sent'.attempt # Null
                  /\ e.attempt_id = sent'.attempt[1].id
                  /\ e.changed_by = req[p].auth.userId
                  /\ e.changed_role = req[p].auth.role
                  /\ IF req[p].route = "post"
                       THEN /\ sent'.status = 201
                            /\ e.action = "attempt_created"
                            /\ e.attempt_id = loc[p].createdAttempt[1].id
                       ELSE /\ sent'.status = 200
                            /\ e.action = "attempt_updated"
                            /\ e.attempt_id = req[p].attemptId
      /\ audit' # audit => sent'.status \in {200, 201}
    ]_vars

\* A correction has just been answered with success, after the creation.
C5_Witness ==
  /\ sent.status = 200
  /\ Len(audit) >= 2
  /\ audit[Len(audit)].action = "attempt_updated"

\* What identifies a row: its id and its key.
Identity(r) ==
  <<r.id, r.event_id, r.competitor_id, r.node_id, r.attempt_number>>

Identities == {Identity(r) : r \in attempts}

\* The lifecycle state of a (competitor, node) pair.
PairState(competitorId, nodeId) ==
  LET a1 == RowsOf(competitorId, nodeId, 1)
      a2 == RowsOf(competitorId, nodeId, 2)
  IN IF a1 = {} /\ a2 = {} THEN "EMPTY"
     ELSE IF a1 # {} /\ a2 = {} /\ \A r \in a1 : r.locked THEN "ATTEMPT1_LOCKED"
     ELSE IF a1 # {} /\ a2 # {} /\ \A r \in a1 \cup a2 : r.locked THEN "BOTH_LOCKED"
     ELSE "OTHER"

LifecycleMoves ==
  { <<"EMPTY", "EMPTY">>, <<"ATTEMPT1_LOCKED", "ATTEMPT1_LOCKED">>,
    <<"BOTH_LOCKED", "BOTH_LOCKED">>,
    <<"EMPTY", "ATTEMPT1_LOCKED">>, <<"ATTEMPT1_LOCKED", "BOTH_LOCKED">> }

\* C8: no step removes a row or changes its id or key, every pair only moves
\* EMPTY -> ATTEMPT1_LOCKED -> BOTH_LOCKED, and the steps of an update
\* request leave the rows' identities and every pair's state as they were.
C8_LedgerOnlyMovesForward ==
  [][ /\ Identities \subseteq Identities'
      /\ \A c \in CompetitorIds, n \in NodeIds :
           <<PairState(c, n), PairState(c, n)'>> \in LifecycleMoves
      /\ (\E p \in Procs : req[p].route = "put" /\ pc'[p] # pc[p]) =>
           /\ Identities' = Identities
           /\ \A c \in CompetitorIds, n \in NodeIds :
                PairState(c, n)' = PairState(c, n)
    ]_vars

\* A row of a pair with both attempts has just been corrected.
C8_Witness ==
  /\ sent.status = 200
  /\ sent.attempt # Null
  /\ PairState(sent.attempt[1].competitor_id, sent.attempt[1].node_id) = "BOTH_LOCKED"

\* The answers that reject a request: Forbidden, NotFound, Conflict, and an
\* invalid body (a ZodError, which errorHandler answers 'Internal server
\* error').
IsRejection(r) ==
  \/ r.status \in {403, 404, 409}
  \/ r.status = 500 /\ r.error = "Internal server error"

\* The conflict the lifecycle rules name for a submission, "none" when the
\* submission is acceptable: create(1) needs no attempt-1 row; create(2)
\* needs a locked attempt-1 row and no attempt-2 row.
ExpectedConflict(competitorId, nodeId, attemptNumber) ==
  IF attemptNumber = 1
    THEN IF RowsOf(competitorId, nodeId, 1) # {}
           THEN "Attempt 1 already exists" ELSE "none"
  ELSE IF RowsOf(competitorId, nodeId, 1) = {}
    THEN "Attempt 1 must be recorded first"
  ELSE IF \E a \in RowsOf(competitorId, nodeId, 1) : ~a.locked
    THEN "Attempt 1 is not locked yet"
  ELSE IF RowsOf(competitorId, nodeId, 2) # {}
    THEN "Attempt 2 already exists"
  ELSE "none"

\* C10: a step that rejects a request changes neither the attempts nor the
\* audit log, and the request has written nothing before; a submission with
\* its scope satisfied and a valid result passes the lifecycle rules exactly
\* when they allow it (otherwise it is answered 409 with the conflict), and
\* once past them it stores its row, locked, unless the key has been taken.
C10_RejectionsChangeNothing ==
  [][ /\ \A p \in Procs :
           (sent'.slot = p /\ IsRejection(sent')) =>
             /\ attempts' = attempts
             /\ audit' = audit
             /\ loc[p].createdAttempt = Null
             /\ loc[p].updatedAttempt = Null
      /\ \A p \in Procs :
           (pc[p] = "load" /\ pc'[p] # "load") =>
             LET conflict == ExpectedConflict(req[p].payload.competitorId,
                                              req[p].payload.nodeId,
                                              req[p].payload.attemptNumber)
             IN \/ sent'.slot = p /\ StorageFailure(sent', "Failed to load attempts")
                \/ IF conflict = "none"
                     THEN pc'[p] = "insert"
                     ELSE /\ sent'.slot = p
                          /\ sent'.status = 409
                          /\ sent'.error = conflict
      /\ \A p \in Procs :
           (pc[p] = "insert" /\ pc'[p] # "insert" /\ KeyTaken(p) = {}) =>
             \/ sent'.slot = p /\ StorageFailure(sent', "Failed to insert attempt")
             \/ \E r \in attempts' \ attempts :
                  /\ r.competitor_id = req[p].payload.competitorId
                  /\ r.node_id = req[p].payload.nodeId
                  /\ r.attempt_number = req[p].payload.attemptNumber
                  /\ r.event_id = req[p].auth.eventId
                  /\ r.locked
    ]_vars

\* A third submission for a pair with both attempts has just been rejected.
C10_Witness ==
  /\ sent.status = 409
  /\ sent.error = "Attempt 2 already exists"
  /\ \E r \in attempts : r.attempt_number = 2

\* ------------------------------------------------------------------------
\* The order of the checks of POST /judge/attempts (under SpecOrder)

\* The preconditions of the specification, on the request held by slot p.
CategoryForbidden(p) ==
  \E c \in Competitors :
    /\ c.id = req[p].payload.competitorId
    /\ c.category_code \notin req[p].auth.allowedCategories

NodeUnassigned(p) == req[p].payload.nodeId \notin req[p].auth.nodeIds

CompetitorOutsideEvent(p) ==
  \A c \in Competitors :
    c.id = req[p].payload.competitorId => c.event_id # req[p].auth.eventId

BodyInvalid(p) ==
  \/ req[p].payload.attemptNumber \notin {1, 2}
  \/ /\ req[p].payload.result.kind = "time"
     /\ \/ req[p].payload.result.centiseconds < 0
        \/ req[p].payload.result.centiseconds > 20 * 60 * 100
  \/ /\ req[p].payload.result.kind = "fault"
     /\ req[p].payload.result.faultCode = ""

\* The POST /judge/attempts request held by slot p is served by this step.
Served(p) ==
  pc[p] = "arrived" /\ req[p].route = "post" /\ pc'[p] # "arrived"

Answer(p, status, error) ==
  sent'.slot = p /\ sent'.status = status /\ sent'.error = error

\* C9 as stated: the category is checked before the node, so a judge's
\* well-formed submission for a competitor of a forbidden category is
\* answered with the category failure, whatever its node.
C9_CategoryBeforeNode ==
  [][ \A p \in Procs :
        ( /\ Served(p)
          /\ req[p].auth.role = "judge"
          /\ ~BodyInvalid(p)
          /\ CategoryForbidden(p) ) =>
            \/ Answer(p, 403, "Competitor category not allowed")
            \/ Answer(p, 500, "Competitor not found")
    ]_vars

\* C9 amended: the checks are made in the order role, body (attempt number
\* and result), node, competitor in the actor's event, category, lifecycle
\* rules, and the first that fails is the one answered (a storage call that
\* fails is answered 500 at the point it is made).
C9_OrderOfChecks ==
  [][ \A p \in Procs :
        /\ Served(p) =>
             IF req[p].auth.role # "judge"
               THEN Answer(p, 403, "Forbidden")
             ELSE IF BodyInvalid(p)
               THEN Answer(p, 500, "Internal server error")
             ELSE IF NodeUnassigned(p)
               THEN Answer(p, 403, "Node is not assigned to judge")
             ELSE \/ Answer(p, 500, "Competitor not found")
                  \/ IF CompetitorOutsideEvent(p)
                       THEN Answer(p, 404, "Competitor not found")
                     ELSE IF CategoryForbidden(p)
                       THEN Answer(p, 403, "Competitor category not allowed")
                     ELSE pc'[p] = "load" /\ sent' = NoRes
        /\ (pc[p] = "load" /\ pc'[p] # "load") =>
             /\ ~BodyInvalid(p)
             /\ ~NodeUnassigned(p)
             /\ ~CompetitorOutsideEvent(p)
             /\ ~CategoryForbidden(p)
             /\ \/ Answer(p, 500, "Failed to load attempts")
                \/ pc'[p] = "insert"
                \/ /\ sent'.slot = p
                   /\ sent'.status = 409
                   /\ sent'.error =
                        ExpectedConflict(req[p].payload.competitorId,
                                         req[p].payload.nodeId,
                                         req[p].payload.attemptNumber)
    ]_vars

\* A submission with a forbidden category and an unassigned node has just
\* been answered with the node failure.
C9_Witness ==
  /\ sent.status = 403
  /\ sent.error = "Node is not assigned to judge"
  /\ sent.request.route = "post"
  /\ sent.request.payload.nodeId \notin sent.request.auth.nodeIds
  /\ \E c \in Competitors :
       /\ c.id = sent.request.payload.competitorId
       /\ c.event_id = sent.request.auth.eventId
       /\ c.category_code \notin sent.request.auth.allowedCategories

\* ------------------------------------------------------------------------
\* Scope of the judge and of the calculator

\* The context authenticate() gives the user with this id.
ActorOf(userId) == CHOOSE a \in Actors : a.userId = userId

\* The category of a competitor of the catalogue.
CategoryOf(competitorId) ==
  (CHOOSE c \in Competitors : c.id = competitorId).category_code

\* The actor's context covers a row of this event, competitor and node.
InScope(auth, eventId, competitorId, nodeId) ==
  /\ auth.role = "judge"
  /\ eventId = auth.eventId
  /\ nodeId \in auth.nodeIds
  /\ CategoryOf(competitorId) \in auth.allowedCategories

\* C11: every stored row, every attempt_created audit entry and every
\* submission past the scope checks is for a node of the recording judge's
\* assigned nodes, a competitor of one of the judge's allowed categories,
\* and the judge's own event.
C11_CreatedWithinScope ==
  /\ \A r \in attempts :
       InScope(ActorOf(r.recorded_by[1]), r.event_id, r.competitor_id, r.node_id)
  /\ \A i \in 1 .. Len(audit) :
       audit[i].action = "attempt_created" =>
         /\ InScope(ActorOf(audit[i].changed_by), audit[i].event_id,
                    audit[i].competitor_id, audit[i].node_id)
         /\ audit[i].new_value[1].event_id = audit[i].event_id
         /\ audit[i].new_value[1].node_id = audit[i].node_id
         /\ audit[i].new_value[1].competitor_id = audit[i].competitor_id
  /\ \A p \in Procs :
       (req[p].route = "post" /\ pc[p] \in {"load", "insert", "lock", "audit"}) =>
         InScope(req[p].auth, req[p].auth.eventId, req[p].payload.competitorId,
                 req[p].payload.nodeId)

\* A creation has been logged for a judge whose scope leaves out a node and
\* a category of the catalogue.
C11_Witness ==
  \E i \in 1 .. Len(audit) :
    /\ audit[i].action = "attempt_created"
    /\ NodeIds \ ActorOf(audit[i].changed_by).nodeIds # {}
    /\ \E c \in Competitors :
         /\ c.event_id = audit[i].event_id
         /\ c.category_code \notin ActorOf(audit[i].changed_by).allowedCategories

\* ------------------------------------------------------------------------
\* The range of a time result

\* Every stored time lies in 0 .. MAX_TIME_CENTISECONDS.
TimeWithinRange ==
  \A r \in attempts :
    r.result_kind = "time" =>
      /\ r.centiseconds # Null
      /\ r.centiseconds[1] >= 0
      /\ r.centiseconds[1] <= MAX_TIME_CENTISECONDS

\* The request held by slot p carries a time outside the range.
TimeOutOfRange(p) ==
  /\ req[p].payload.result.kind = "time"
  /\ \/ req[p].payload.result.centiseconds < 0
     \/ req[p].payload.result.centiseconds > MAX_TIME_CENTISECONDS

\* The request held by slot p passes the role check of its route.
RoleAllowed(p) ==
  IF req[p].route = "post"
    THEN req[p].auth.role = "judge"
    ELSE req[p].auth.role \in {"calculator", "admin"}

AuditInsertFails(p) == pc[p] = "audit" /\ pc'[p] = "idle" /\ audit' = audit

\* C13: when the audit insert fails after the row was inserted or updated,
\* the request is answered 500 'Failed to insert audit log' with no attempt
\* in the answer; the row written by the request stays stored.
C13_AuditFailureIsInternalFailure ==
  [][ \A p \in Procs :
        AuditInsertFails(p) =>
          /\ sent'.slot = p
          /\ sent'.status = 500
          /\ sent'.error = "Failed to insert audit log"
          /\ sent'.attempt = Null
          /\ attempts' = attempts
          /\ \E r \in attempts :
               r.id = IF req[p].route = "post"
                        THEN loc[p].createdAttempt[1].id
                        ELSE loc[p].updatedAttempt[1].id
    ]_vars

\* The audit insert of a correction has just failed: the corrected row is
\* stored and the log has no entry with its new value.
C13_Witness ==
  /\ sent.status = 500
  /\ sent.error = "Failed to insert audit log"
  /\ \E r \in attempts :
       /\ r.note = Some("fixed")
       /\ \A i \in 1 .. Len(audit) : audit[i].new_value # Some(r)

\* ------------------------------------------------------------------------
\* Who may correct an attempt (under SpecOrder)

\* The PUT /calculator/attempts/:attemptId request held by slot p is served
\* by this step.
ServedPut(p) ==
  pc[p] = "arrived" /\ req[p].route = "put" /\ pc'[p] # "arrived"

\* The stored rows the correction of slot p may touch: the row with its id,
\* when it is of the caller's event.
Correctable(p) ==
  {r \in attempts : r.id = req[p].attemptId /\ r.event_id = req[p].auth.eventId}

\* C15: a correction from a judge is answered 403 Forbidden; one from a
\* calculator or an admin with a well-formed body is looked up, and is
\* answered 404 'Attempt not found' when no row has the id or the row is of
\* another event, in both cases with attempts and audit log unchanged; it
\* goes on to the update exactly when the row is of the caller's event,
\* whatever the caller's nodes and categories.
C15_CorrectionByEventStaffOnly ==
  [][ \A p \in Procs :
        /\ ServedPut(p) =>
             /\ attempts' = attempts
             /\ audit' = audit
             /\ IF req[p].auth.role \notin {"calculator", "admin"}
                  THEN Answer(p, 403, "Forbidden")
                ELSE IF req[p].attemptId = 0 \/ ~ResultValid(req[p].payload.result)
                  THEN Answer(p, 500, "Internal server error")
                ELSE pc'[p] = "select" /\ sent' = NoRes
        /\ (pc[p] = "select" /\ pc'[p] # "select") =>
             /\ req[p].auth.role \in {"calculator", "admin"}
             /\ \/ /\ Answer(p, 500, "Attempt not found")
                   /\ attempts' = attempts
                   /\ audit' = audit
                \/ IF Correctable(p) = {}
                     THEN /\ Answer(p, 404, "Attempt not found")
                          /\ attempts' = attempts
                          /\ audit' = audit
                     ELSE pc'[p] = "update"
        /\ (pc[p] = "update" /\ pc'[p] = "audit") =>
             /\ Correctable(p) # {}
             /\ req[p].auth.nodeIds = {}
             /\ req[p].auth.allowedCategories = {}
    ]_vars

\* The correction of a row by the admin of its event, who has no assigned
\* node and no allowed category, has just been answered with success.
C15_Witness ==
  /\ sent.status = 200
  /\ Len(audit) >= 2
  /\ audit[Len(audit)].action = "attempt_updated"
  /\ audit[Len(audit)].changed_role = "admin"
  /\ audit[Len(audit)].changed_by = "u5"

\* ------------------------------------------------------------------------
\* What a correction changes

\* The update of the correction of slot p is applied in this step.
UpdateApplied(p) == pc[p] = "update" /\ pc'[p] = "audit"

\* C16: the update of a correction replaces exactly the row with its id by
\* a row with the same id, event, competitor, node, attempt number,
\* recorded_by and recorded_role, with the result columns of the body, the
\* note of the body (none when the body has none) and locked true; every
\* other row is as it was, and the update is applied whatever the attempt
\* number and the other attempts of the pair.
C16_CorrectionFrame ==
  [][ \A p \in Procs :
        /\ UpdateApplied(p) =>
             \E old \in attempts : \E new \in attempts' :
               /\ old.id = req[p].attemptId
               /\ new.id = old.id
               /\ new.event_id = old.event_id
               /\ new.competitor_id = old.competitor_id
               /\ new.node_id = old.node_id
               /\ new.attempt_number = old.attempt_number
               /\ new.recorded_by = old.recorded_by
               /\ new.recorded_role = old.recorded_role
               /\ new.locked
               /\ new.note = req[p].payload.note
               /\ new.result_kind = req[p].payload.result.kind
               /\ IF req[p].payload.result.kind = "time"
                    THEN /\ new.centiseconds = Some(req[p].payload.result.centiseconds)
                         /\ new.fault_code = Null
                    ELSE /\ new.centiseconds = Null
                         /\ new.fault_code = Some(req[p].payload.result.faultCode)
               /\ attempts' \ {new} = attempts \ {old}
               /\ loc'[p].updatedAttempt = Some(new)
        /\ (pc[p] = "update" /\ (\E r \in attempts : r.id = req[p].attemptId)) =>
             \/ UpdateApplied(p)
             \/ pc'[p] = "update"
             \/ sent'.slot = p /\ StorageFailure(sent', "Failed to update attempt")
    ]_vars

\* The update of a correction has just cleared the note of an attempt 1
\* whose pair also has an attempt 2.
C16_Witness ==
  \E p \in Procs :
    /\ pc[p] = "audit"
    /\ req[p].route = "put"
    /\ loc[p].attempt # Null
    /\ loc[p].attempt[1].note # Null
    /\ loc[p].attempt[1].attempt_number = 1
    /\ loc[p].updatedAttempt # Null
    /\ loc[p].updatedAttempt[1].note = Null
    /\ loc[p].updatedAttempt[1] \in attempts
    /\ RowsOf(loc[p].attempt[1].competitor_id, loc[p].attempt[1].node_id, 2) # {}

\* ------------------------------------------------------------------------
\* The ranking views (views.sql)
\*
\* The views are queries over the tables competitors, nodes, category_nodes
\* and attempts; db is a record with one field per table.  SQL NULL is Null
\* and a value v of a nullable column is Some(v).

\* Number of rows of the ledger the views are read from.
MaxRows == 3

\* The configuration of the seed: counted nodes AMB and LOD, and the relay
\* STF, which does not count to the overall score.
RankNodes ==
  { [id |-> "AMB", event_id |-> "e1", is_relay |-> FALSE, counts_to_overall |-> TRUE],
    [id |-> "LOD", event_id |-> "e1", is_relay |-> FALSE, counts_to_overall |-> TRUE],
    [id |-> "STF", event_id |-> "e1", is_relay |-> TRUE, counts_to_overall |-> FALSE] }

RankCategoryNodes ==
  { [event_id |-> "e1", category_code |-> "N", node_id |-> "AMB", sequence |-> 1],
    [event_id |-> "e1", category_code |-> "N", node_id |-> "LOD", sequence |-> 2],
    [event_id |-> "e1", category_code |-> "N", node_id |-> "STF", sequence |-> 3],
    [event_id |-> "e1", category_code |-> "M", node_id |-> "AMB", sequence |-> 1] }

RankCompetitors ==
  { [id |-> "k1", event_id |-> "e1", category_code |-> "N"],
    [id |-> "k2", event_id |-> "e1", category_code |-> "N"],
    [id |-> "k3", event_id |-> "e1", category_code |-> "N"],
    [id |-> "k4", event_id |-> "e1", category_code |-> "M"] }

\* The results judges record at these nodes.
RankResults ==
  { [kind |-> "time", centiseconds |-> 1200],
    [kind |-> "time", centiseconds |-> 1500],
    [kind |-> "fault", faultCode |-> "333"] }

\* The judge who records them.
RankJudge ==
  [userId |-> "u6", role |-> "judge", eventId |-> "e1",
   nodeIds |-> {n.id : n \in RankNodes}, allowedCategories |-> {"N", "M"}]

\* The database the views are read from.
RankDb ==
  [competitors |-> RankCompetitors, nodes |-> RankNodes,
   category_nodes |-> RankCategoryNodes, attempts |-> attempts]

\* min(), max() and sum() over values that are not NULL.
MinOf(S) == CHOOSE x \in S : \A y \in S : x <= y

MaxOf(S) == CHOOSE x \in S : \A y \in S : x >= y

RECURSIVE SumOver(_, _)
SumOver(f, S) ==
  IF S = {} THEN 0
  ELSE LET x == CHOOSE y \in S : TRUE IN f[x] + SumOver(f, S \ {x})

\* Variant: the best time is the time of the last attempt, not the smallest.
node_attempt_best_LastAttempt(db) ==
  { LET grp == {a \in db.attempts : /\ a.event_id = k[1]
                                    /\ a.node_id = k[2]
                                    /\ a.competitor_id = k[3]}
        timed == {x \in grp : x.result_kind = "time" /\ x.centiseconds # Null}
        last == CHOOSE x \in timed : \A y \in timed : y.attempt_number <= x.attempt_number
    IN [event_id |-> k[1], node_id |-> k[2], competitor_id |-> k[3],
        best_centiseconds |-> IF timed = {} THEN Null ELSE last.centiseconds,
        has_fault |-> \E a \in grp : a.result_kind = "fault",
        has_any_attempt |-> grp # {}]
    : k \in {<<a.event_id, a.node_id, a.competitor_id>> : a \in db.attempts} }

\* view node_attempt_best: one row per (event, node, competitor) that has
\* an attempt.
node_attempt_best(db) ==
  { LET grp == {a \in db.attempts : /\ a.event_id = k[1]
                                    /\ a.node_id = k[2]
                                    /\ a.competitor_id = k[3]}
        times == {a.centiseconds[1] :
                    a \in {x \in grp : x.result_kind = "time" /\ x.centiseconds # Null}}
    IN [event_id |-> k[1], node_id |-> k[2], competitor_id |-> k[3],
        best_centiseconds |-> IF times = {} THEN Null ELSE Some(MinOf(times)),
        has_fault |-> \E a \in grp : a.result_kind = "fault",
        has_any_attempt |-> grp # {}]
    : k \in {<<a.event_id, a.node_id, a.competitor_id>> : a \in db.attempts} }

\* Variant: node_attempt_best is joined with an inner join, so a competitor
\* has a row only at the nodes where it has an attempt.
RankingBase_InnerJoin(db) ==
  LET best == node_attempt_best(db) IN
  { LET nb == {x \in best : /\ x.event_id = j[1].event_id
                            /\ x.node_id = j[1].node_id
                            /\ x.competitor_id = j[2].id}
    IN [event_id |-> j[1].event_id,
        category_code |-> j[1].category_code,
        node_id |-> j[1].node_id,
        sequence |-> j[1].sequence,
        competitor_id |-> j[2].id,
        best_centiseconds |-> (CHOOSE x \in nb : TRUE).best_centiseconds,
        has_fault |-> \E x \in nb : x.has_fault,
        has_any_attempt |-> \E x \in nb : x.has_any_attempt]
    : j \in {jj \in db.category_nodes \X db.competitors :
               /\ jj[2].event_id = jj[1].event_id
               /\ jj[2].category_code = jj[1].category_code
               /\ \E x \in best : /\ x.event_id = jj[1].event_id
                                  /\ x.node_id = jj[1].node_id
                                  /\ x.competitor_id = jj[2].id} }

\* CTE base of category_node_rankings: category_nodes join competitors left
\* join node_attempt_best.
RankingBase(db) ==
  LET best == node_attempt_best(db) IN
  { LET nb == {x \in best : /\ x.event_id = j[1].event_id
                            /\ x.node_id = j[1].node_id
                            /\ x.competitor_id = j[2].id}
    IN [event_id |-> j[1].event_id,
        category_code |-> j[1].category_code,
        node_id |-> j[1].node_id,
        sequence |-> j[1].sequence,
        competitor_id |-> j[2].id,
        best_centiseconds |->
          IF nb = {} THEN Null ELSE (CHOOSE x \in nb : TRUE).best_centiseconds,
        has_fault |-> \E x \in nb : x.has_fault,
        has_any_attempt |-> \E x \in nb : x.has_any_attempt]
    : j \in {jj \in db.category_nodes \X db.competitors :
               /\ jj[2].event_id = jj[1].event_id
               /\ jj[2].category_code = jj[1].category_code} }

\* Variant: NULL sorts first, as with ORDER BY ... NULLS FIRST.
SortsBefore_NullsFirst(x, y) ==
  \/ x = Null /\ y # Null
  \/ x # Null /\ y # Null /\ x[1] < y[1]

\* Variant: the larger value sorts first, as with ORDER BY ... DESC NULLS
\* LAST.
SortsBefore_Descending(x, y) == x # Null /\ (y = Null \/ x[1] > y[1])

\* order by ... asc: x sorts strictly before y; NULL sorts last.
SortsBefore(x, y) == x # Null /\ (y = Null \/ x[1] < y[1])

\* Variant: the ranks are counted from 0.
dense_rank_FromZero(row, partition) ==
  Cardinality({ q.best_centiseconds :
                  q \in {x \in partition :
                           SortsBefore(x.best_centiseconds, row.best_centiseconds)} })

\* dense_rank() over (partition ... order by best_centiseconds asc): one
\* more than the number of distinct values that sort before the row's.
dense_rank(row, partition) ==
  1 + Cardinality({ q.best_centiseconds :
                      q \in {x \in partition :
                               SortsBefore(x.best_centiseconds, row.best_centiseconds)} })

\* Variant: a row without a time is placed right after the finishers.
category_node_rankings_AfterFinishers(db) ==
  LET base == RankingBase(db) IN
  { LET partition == {x \in base : /\ x.event_id = b.event_id
                                   /\ x.category_code = b.category_code
                                   /\ x.node_id = b.node_id}
        time_rank == IF b.best_centiseconds # Null
                       THEN Some(dense_rank(b, partition)) ELSE Null
        competitor_count == Cardinality(partition)
    IN [event_id |-> b.event_id,
        category_code |-> b.category_code,
        node_id |-> b.node_id,
        sequence |-> b.sequence,
        competitor_id |-> b.competitor_id,
        best_centiseconds |-> b.best_centiseconds,
        has_fault |-> b.has_fault,
        has_any_attempt |-> b.has_any_attempt,
        status |-> IF b.best_centiseconds # Null THEN "time"
                   ELSE IF b.has_fault THEN "fault"
                   ELSE IF b.has_any_attempt THEN "incomplete"
                   ELSE "missing",
        time_rank |-> time_rank,
        competitor_count |-> competitor_count,
        placement |-> IF b.best_centiseconds # Null
                        THEN time_rank[1]
                        ELSE 1 + Cardinality({x \in partition : x.best_centiseconds # Null}),
        tie_break_centiseconds |->
          IF b.best_centiseconds # Null THEN b.best_centiseconds ELSE Null]
    : b \in base }

\* view category_node_rankings
category_node_rankings(db) ==
  LET base == RankingBase(db) IN
  { LET partition == {x \in base : /\ x.event_id = b.event_id
                                   /\ x.category_code = b.category_code
                                   /\ x.node_id = b.node_id}
        time_rank == IF b.best_centiseconds # Null
                       THEN Some(dense_rank(b, partition)) ELSE Null
        competitor_count == Cardinality(partition)
    IN [event_id |-> b.event_id,
        category_code |-> b.category_code,
        node_id |-> b.node_id,
        sequence |-> b.sequence,
        competitor_id |-> b.competitor_id,
        best_centiseconds |-> b.best_centiseconds,
        has_fault |-> b.has_fault,
        has_any_attempt |-> b.has_any_attempt,
        status |-> IF b.best_centiseconds # Null THEN "time"
                   ELSE IF b.has_fault THEN "fault"
                   ELSE IF b.has_any_attempt THEN "incomplete"
                   ELSE "missing",
        time_rank |-> time_rank,
        competitor_count |-> competitor_count,
        placement |-> IF b.best_centiseconds # Null
                        THEN time_rank[1] ELSE competitor_count,
        tie_break_centiseconds |->
          IF b.best_centiseconds # Null THEN b.best_centiseconds ELSE Null]
    : b \in base }

\* Variant: the sums and the count run over every node of the category,
\* counted or not.
OverallScoresOf_AllNodes(rows, db) ==
  { LET grp == {r \in rows : /\ r.event_id = k[1]
                             /\ r.category_code = k[2]
                             /\ r.competitor_id = k[3]
                             /\ \E n \in db.nodes : n.id = r.node_id}
        rowAt == [n \in {r.node_id : r \in grp} |->
                    CHOOSE r \in grp : r.node_id = n]
        placementAt == [n \in DOMAIN rowAt |-> rowAt[n].placement]
        tieNodes == {n \in DOMAIN rowAt : rowAt[n].tie_break_centiseconds # Null}
    IN [event_id |-> k[1],
        category_code |-> k[2],
        competitor_id |-> k[3],
        placement_sum |-> SumOver(placementAt, DOMAIN rowAt),
        tie_break_centiseconds_sum |->
          IF tieNodes = {} THEN Null
          ELSE Some(SumOver([n \in tieNodes |-> rowAt[n].tie_break_centiseconds[1]],
                            tieNodes)),
        counted_nodes |-> Cardinality(grp),
        has_non_time |->
          IF grp = {} THEN Null
          ELSE Some(\E r \in grp : r.status # "time"),
        competitor_count |->
          IF grp = {} THEN Null
          ELSE Some(MaxOf({r.competitor_count : r \in grp}))]
    : k \in {<<r.event_id, r.category_code, r.competitor_id>> : r \in rows} }

\* view category_overall_scores: category_node_rankings join nodes, grouped
\* by (event, category, competitor).  A group has one row per node, so the
\* aggregates run over the nodes of the group.  sum() skips NULL and is
\* NULL when every value is; bool_or() and max() over no row are NULL.
OverallScoresOf(rows, db) ==
  LET counts(r) == \E n \in db.nodes : n.id = r.node_id /\ n.counts_to_overall
  IN
  { LET grp == {r \in rows : /\ r.event_id = k[1]
                             /\ r.category_code = k[2]
                             /\ r.competitor_id = k[3]
                             /\ \E n \in db.nodes : n.id = r.node_id}
        rowAt == [n \in {r.node_id : r \in grp} |->
                    CHOOSE r \in grp : r.node_id = n]
        counted == {r \in grp : counts(r)}
        placementAt == [n \in DOMAIN rowAt |->
                          IF counts(rowAt[n]) THEN rowAt[n].placement ELSE 0]
        tieAt == [n \in DOMAIN rowAt |->
                    IF counts(rowAt[n])
                      THEN rowAt[n].tie_break_centiseconds ELSE Some(0)]
        tieNodes == {n \in DOMAIN rowAt : tieAt[n] # Null}
    IN [event_id |-> k[1],
        category_code |-> k[2],
        competitor_id |-> k[3],
        placement_sum |-> SumOver(placementAt, DOMAIN rowAt),
        tie_break_centiseconds_sum |->
          IF tieNodes = {} THEN Null
          ELSE Some(SumOver([n \in tieNodes |-> tieAt[n][1]], tieNodes)),
        counted_nodes |-> Cardinality(counted),
        has_non_time |->
          IF counted = {} THEN Null
          ELSE Some(\E r \in counted : r.status # "time"),
        competitor_count |->
          IF counted = {} THEN Null
          ELSE Some(MaxOf({r.competitor_count : r \in counted}))]
    : k \in {<<r.event_id, r.category_code, r.competitor_id>> : r \in rows} }

category_overall_scores(db) == OverallScoresOf(category_node_rankings(db), db)

\* Variant: the rows are ordered by placement_sum alone.
SumsSortBefore_PlacementOnly(x, y) == x.placement_sum < y.placement_sum

\* order by placement_sum asc, tie_break_centiseconds_sum asc: row x sorts
\* strictly before row y.
SumsSortBefore(x, y) ==
  \/ x.placement_sum < y.placement_sum
  \/ /\ x.placement_sum = y.placement_sum
     /\ SortsBefore(x.tie_break_centiseconds_sum, y.tie_break_centiseconds_sum)

\* Variant: rank() instead of dense_rank(): one more than the number of
\* rows that sort before the row.
dense_rank_sums_WithGaps(row, partition) ==
  1 + Cardinality({x \in partition : SumsSortBefore(x, row)})

\* dense_rank() over (partition ... order by placement_sum asc,
\* tie_break_centiseconds_sum asc): one more than the number of distinct
\* pairs that sort before the row's.
dense_rank_sums(row, partition) ==
  1 + Cardinality({ <<q.placement_sum, q.tie_break_centiseconds_sum>> :
                      q \in {x \in partition : SumsSortBefore(x, row)} })

\* Variant: without a counted node the competitor count falls back to 0
\* instead of the number of competitors of the category.
LeaderboardsOf_CountFromNodes(scores, db) ==
  LET sub(eventId, categoryCode) ==
        {c \in db.competitors : c.event_id = eventId /\ c.category_code = categoryCode}
      totals ==
        { [event_id |-> cos.event_id,
           category_code |-> cos.category_code,
           competitor_id |-> cos.competitor_id,
           placement_sum |-> cos.placement_sum,
           tie_break_centiseconds_sum |-> cos.tie_break_centiseconds_sum,
           counted_nodes |-> cos.counted_nodes,
           has_non_time |-> IF cos.has_non_time = Null THEN FALSE ELSE cos.has_non_time[1],
           competitor_count |->
             IF cos.competitor_count = Null THEN 0 ELSE cos.competitor_count[1]]
          : cos \in {x \in scores : sub(x.event_id, x.category_code) # {}} }
  IN { [event_id |-> t.event_id,
        category_code |-> t.category_code,
        competitor_id |-> t.competitor_id,
        placement_sum |-> t.placement_sum,
        tie_break_centiseconds_sum |-> t.tie_break_centiseconds_sum,
        counted_nodes |-> t.counted_nodes,
        has_non_time |-> t.has_non_time,
        competitor_count |-> t.competitor_count,
        overall_rank |->
          dense_rank_sums(t, {x \in totals : /\ x.event_id = t.event_id
                                             /\ x.category_code = t.category_code})]
       : t \in totals }

\* view category_leaderboards: category_overall_scores joined with the
\* number of competitors of the category.
LeaderboardsOf(scores, db) ==
  LET sub(eventId, categoryCode) ==
        {c \in db.competitors : c.event_id = eventId /\ c.category_code = categoryCode}
      totals ==
        { [event_id |-> cos.event_id,
           category_code |-> cos.category_code,
           competitor_id |-> cos.competitor_id,
           placement_sum |-> cos.placement_sum,
           tie_break_centiseconds_sum |-> cos.tie_break_centiseconds_sum,
           counted_nodes |-> cos.counted_nodes,
           has_non_time |-> IF cos.has_non_time = Null THEN FALSE ELSE cos.has_non_time[1],
           competitor_count |->
             IF cos.competitor_count = Null
               THEN Cardinality(sub(cos.event_id, cos.category_code))
               ELSE cos.competitor_count[1]]
          : cos \in {x \in scores :
                       sub(x.event_id, x.category_code) # {}} }
  IN { [event_id |-> t.event_id,
        category_code |-> t.category_code,
        competitor_id |-> t.competitor_id,
        placement_sum |-> t.placement_sum,
        tie_break_centiseconds_sum |-> t.tie_break_centiseconds_sum,
        counted_nodes |-> t.counted_nodes,
        has_non_time |-> t.has_non_time,
        competitor_count |-> t.competitor_count,
        overall_rank |->
          dense_rank_sums(t, {x \in totals : /\ x.event_id = t.event_id
                                             /\ x.category_code = t.category_code})]
       : t \in totals }

category_leaderboards(db) == LeaderboardsOf(category_overall_scores(db), db)

\* Variant: the relay nodes are taken to be the nodes that do not count to
\* the overall score.
RelayRowsOf_NotCounted(rows, db) ==
  {r \in rows : \E n \in db.nodes : n.id = r.node_id /\ ~n.counts_to_overall}

\* view relay_node_rankings: the rows of category_node_rankings at the
\* nodes flagged is_relay.
RelayRowsOf(rows, db) ==
  {r \in rows : \E n \in db.nodes : n.id = r.node_id /\ n.is_relay}

relay_node_rankings(db) == RelayRowsOf(category_node_rankings(db), db)

\* view relay_leaderboards: relay_node_rankings grouped by (event,
\* category, competitor).  sum() skips NULL and is NULL when every value is.
RelayLeaderboardsOf(rows) ==
  LET base ==
        { LET grp == {r \in rows : /\ r.event_id = k[1]
                                   /\ r.category_code = k[2]
                                   /\ r.competitor_id = k[3]}
              rowAt == [n \in {r.node_id : r \in grp} |->
                          CHOOSE r \in grp : r.node_id = n]
              tieNodes == {n \in DOMAIN rowAt : rowAt[n].tie_break_centiseconds # Null}
          IN [event_id |-> k[1],
              category_code |-> k[2],
              competitor_id |-> k[3],
              placement_sum |->
                SumOver([n \in DOMAIN rowAt |-> rowAt[n].placement], DOMAIN rowAt),
              tie_break_centiseconds_sum |->
                IF tieNodes = {} THEN Null
                ELSE Some(SumOver([n \in tieNodes |-> rowAt[n].tie_break_centiseconds[1]],
                                  tieNodes)),
              counted_nodes |-> Cardinality(grp),
              competitor_count |-> MaxOf({r.competitor_count : r \in grp})]
          : k \in {<<r.event_id, r.category_code, r.competitor_id>> : r \in rows} }
  IN { [event_id |-> b.event_id,
        category_code |-> b.category_code,
        competitor_id |-> b.competitor_id,
        placement_sum |-> b.placement_sum,
        tie_break_centiseconds_sum |-> b.tie_break_centiseconds_sum,
        counted_nodes |-> b.counted_nodes,
        competitor_count |-> b.competitor_count,
        relay_rank |->
          dense_rank_sums(b, {x \in base : /\ x.event_id = b.event_id
                                           /\ x.category_code = b.category_code})]
       : b \in base }

relay_leaderboards(db) == RelayLeaderboardsOf(relay_node_rankings(db))

\* The rows of every ranking view over a database.
RankingViews(db) ==
  LET rows == category_node_rankings(db)
      scores == OverallScoresOf(rows, db)
      relay == RelayRowsOf(rows, db)
  IN [category_node_rankings |-> rows,
      category_overall_scores |-> scores,
      category_leaderboards |-> LeaderboardsOf(scores, db),
      relay_node_rankings |-> relay,
      relay_leaderboards |-> RelayLeaderboardsOf(relay)]

\* The place of an attempt key in the order in which the ledger is filled.
\* The views do not read the id of a row, so the ledgers are built in one
\* order of their keys.
KeyOrder(competitorId, nodeId, attemptNumber) ==
  LET ci == CHOOSE i \in 1 .. 4 :
              competitorId = <<"k1", "k2", "k3", "k4">>[i]
      ni == CHOOSE i \in 1 .. 3 : nodeId = <<"AMB", "LOD", "STF">>[i]
  IN ci * 100 + ni * 10 + attemptNumber

\* A judge records an attempt: the row POST /judge/attempts inserts once
\* the lifecycle rules have passed.  The competitors are recorded at the
\* nodes of their category.
RecordResultIn(db, results, max) ==
  /\ Cardinality(attempts) < max
  /\ \E c \in db.competitors, n \in db.nodes, k \in {1, 2}, result \in results :
       /\ c.event_id = RankJudge.eventId
       /\ \E cn \in db.category_nodes : /\ cn.event_id = c.event_id
                                         /\ cn.category_code = c.category_code
                                         /\ cn.node_id = n.id
       /\ LifecycleError({a \in attempts : a.competitor_id = c.id /\ a.node_id = n.id}, k) = Null
       /\ \A a \in attempts :
            KeyOrder(a.competitor_id, a.node_id, a.attempt_number) < KeyOrder(c.id, n.id, k)
       /\ attempts' = attempts \cup
            { InsertPayload(nextId, RankJudge,
                            [competitorId |-> c.id, nodeId |-> n.id,
                             attemptNumber |-> k, result |-> result,
                             note |-> Null]) }
  /\ nextId' = nextId + 1
  /\ rankings' = Null
  /\ UNCHANGED <<audit, calls, pc, req, loc, sent, competitors, qr_tokens, pageVars, authVars>>

RecordResult == RecordResultIn(RankDb, RankResults, MaxRows)

\* The views are read.
ReadRankingsOf(db) ==
  /\ rankings = Null
  /\ rankings' = Some(RankingViews(db))
  /\ UNCHANGED <<attempts, audit, nextId, calls, pc, req, loc, sent, competitors, qr_tokens, pageVars, authVars>>

ReadRankings == ReadRankingsOf(RankDb)

\* A calculator corrects the result of a stored attempt: the update PUT
\* /calculator/attempts/:attemptId applies once the row has been found in
\* the event.
AmendResultIn(results) ==
  /\ \E a \in attempts, result \in results :
       /\ a.event_id = RankJudge.eventId
       /\ attempts' = UpdateAttempt(a.id, [result |-> result, note |-> Null])
  /\ rankings' = Null
  /\ UNCHANGED <<audit, nextId, calls, pc, req, loc, sent, competitors, qr_tokens, pageVars, authVars>>

AmendResult == AmendResultIn(RankResults)

NextRank == RecordResult \/ AmendResult \/ ReadRankings

SpecRank == Init /\ [][NextRank]_vars

\* ------------------------------------------------------------------------
\* A second configuration: a category of two competitors with two counted
\* nodes and the relay, and a category whose only node is the relay, which
\* is not counted

MaxPairRows == 3

PairNodes == RankNodes

PairCategoryNodes ==
  { [event_id |-> "e1", category_code |-> "N", node_id |-> "AMB", sequence |-> 1],
    [event_id |-> "e1", category_code |-> "N", node_id |-> "LOD", sequence |-> 2],
    [event_id |-> "e1", category_code |-> "N", node_id |-> "STF", sequence |-> 3],
    [event_id |-> "e1", category_code |-> "M", node_id |-> "STF", sequence |-> 1] }

PairCompetitors ==
  { [id |-> "k1", event_id |-> "e1", category_code |-> "N"],
    [id |-> "k2", event_id |-> "e1", category_code |-> "N"],
    [id |-> "k4", event_id |-> "e1", category_code |-> "M"] }

PairResults ==
  { [kind |-> "time", centiseconds |-> 1200],
    [kind |-> "time", centiseconds |-> 1500],
    [kind |-> "time", centiseconds |-> 1800] }

PairDb ==
  [competitors |-> PairCompetitors, nodes |-> PairNodes,
   category_nodes |-> PairCategoryNodes, attempts |-> attempts]

RecordPairResult == RecordResultIn(PairDb, PairResults, MaxPairRows)

AmendPairResult == AmendResultIn(PairResults)

ReadPairRankings == ReadRankingsOf(PairDb)

NextPair == RecordPairResult \/ AmendPairResult \/ ReadPairRankings

SpecPair == Init /\ [][NextPair]_vars

\* ------------------------------------------------------------------------
\* Properties of the ranking views (under SpecRank)

\* The attempts of a competitor at a node of an event.
AttemptsAt(eventId, nodeId, competitorId) ==
  {a \in attempts : /\ a.event_id = eventId
                    /\ a.node_id = nodeId
                    /\ a.competitor_id = competitorId}

\* The rows last read from category_node_rankings for a group, and the row
\* of a competitor in the group.
GroupRows(cn) ==
  {r \in rankings[1].category_node_rankings :
     /\ r.event_id = cn.event_id
     /\ r.category_code = cn.category_code
     /\ r.node_id = cn.node_id}

\* The competitors of the category of a group.
GroupCompetitors(cn) ==
  {c \in RankCompetitors :
     c.event_id = cn.event_id /\ c.category_code = cn.category_code}

\* C17: every group has exactly one row per competitor of its category;
\* the row's best_centiseconds is the smallest centiseconds of the
\* competitor's time attempts at the node, NULL when there is none; the
\* status is time when there is a best time, else fault when an attempt is
\* a fault, else incomplete when there is an attempt, else missing.
C17_BestTimeAndStatus ==
  rankings # Null =>
    \A cn \in RankCategoryNodes :
      /\ {r.competitor_id : r \in GroupRows(cn)} = {c.id : c \in GroupCompetitors(cn)}
      /\ Cardinality(GroupRows(cn)) = Cardinality(GroupCompetitors(cn))
      /\ \A r \in GroupRows(cn) :
           LET mine == AttemptsAt(cn.event_id, cn.node_id, r.competitor_id)
               timed == {a \in mine : a.result_kind = "time"}
           IN /\ IF timed = {}
                   THEN r.best_centiseconds = Null
                   ELSE /\ r.best_centiseconds # Null
                        /\ \E a \in timed : a.centiseconds = r.best_centiseconds
                        /\ \A a \in timed : r.best_centiseconds[1] <= a.centiseconds[1]
              /\ r.status =
                   IF timed # {} THEN "time"
                   ELSE IF \E a \in mine : a.result_kind = "fault" THEN "fault"
                   ELSE IF mine # {} THEN "incomplete"
                   ELSE "missing"

\* The views have been read from a ledger where a competitor's second
\* attempt is slower than the first, a competitor has a fault only, and a
\* competitor has no attempt at the node.
C17_Witness ==
  /\ rankings # Null
  /\ \E cn \in RankCategoryNodes :
       /\ \E r \in GroupRows(cn) :
            /\ r.status = "time"
            /\ \E a1, a2 \in AttemptsAt(cn.event_id, cn.node_id, r.competitor_id) :
                 /\ a1.attempt_number = 1
                 /\ a2.attempt_number = 2
                 /\ a1.result_kind = "time"
                 /\ a2.result_kind = "time"
                 /\ a1.centiseconds[1] < a2.centiseconds[1]
       /\ \E r \in GroupRows(cn) : r.status = "fault"
       /\ \E r \in GroupRows(cn) : r.status = "missing"

\* The finishers of a group: the rows with a best time.
Finishers(cn) == {r \in GroupRows(cn) : r.best_centiseconds # Null}

\* C18: in every group a row has a time_rank exactly when it has a best
\* time; the ranks of the finishers are exactly 1 .. k for k distinct best
\* times, and a finisher ranks lower than another exactly when its best
\* time is smaller (so equal times share a rank and the smallest has rank
\* 1), whatever the number of rows without a time in the group.
C18_DenseTimeRank ==
  rankings # Null =>
    \A cn \in RankCategoryNodes :
      /\ \A r \in GroupRows(cn) :
           /\ (r.time_rank = Null) <=> (r.best_centiseconds = Null)
           /\ (r.status = "time") <=> (r.best_centiseconds # Null)
      /\ {r.time_rank[1] : r \in Finishers(cn)} =
           1 .. Cardinality({r.best_centiseconds : r \in Finishers(cn)})
      /\ \A r1, r2 \in Finishers(cn) :
           (r1.time_rank[1] < r2.time_rank[1]) <=>
             (r1.best_centiseconds[1] < r2.best_centiseconds[1])

\* The views have been read from a ledger where two competitors of a group
\* share the best time and a third has a fault only.
C18_Witness ==
  /\ rankings # Null
  /\ \E cn \in RankCategoryNodes :
       /\ \E r1, r2 \in Finishers(cn) :
            /\ r1.competitor_id # r2.competitor_id
            /\ r1.best_centiseconds = r2.best_centiseconds
            /\ r1.time_rank = Some(1)
            /\ r2.time_rank = Some(1)
       /\ \E r \in GroupRows(cn) : r.status = "fault" /\ r.time_rank = Null

\* The competitors of the category of a group, counted in the competitors
\* table.
CategorySize(cn) ==
  Cardinality({c \in RankCompetitors : /\ c.event_id = cn.event_id
                                       /\ c.category_code = cn.category_code})

\* C19: in every group a row whose status is not time is placed at the
\* number of competitors of the category, however many rows of the group
\* have a time, and a row with a time is placed at its time_rank.
C19_Placement ==
  rankings # Null =>
    \A cn \in RankCategoryNodes :
      \A r \in GroupRows(cn) :
        /\ r.competitor_count = CategorySize(cn)
        /\ r.status # "time" => r.placement = CategorySize(cn)
        /\ r.status = "time" => r.placement = r.time_rank[1]

\* The views have been read from a ledger where one competitor of a group
\* of three has a time and the two others do not: both are placed third.
C19_Witness ==
  /\ rankings # Null
  /\ \E cn \in RankCategoryNodes :
       /\ CategorySize(cn) = 3
       /\ Cardinality(Finishers(cn)) = 1
       /\ \E r \in Finishers(cn) : r.placement = 1
       /\ \E r1, r2 \in GroupRows(cn) :
            /\ r1.competitor_id # r2.competitor_id
            /\ r1.status = "fault" /\ r1.placement = 3
            /\ r2.status # "time" /\ r2.placement = 3

\* The nodes of a category that are flagged counts_to_overall.
CountedNodes(eventId, categoryCode) ==
  {cn.node_id : cn \in {x \in RankCategoryNodes :
                          /\ x.event_id = eventId
                          /\ x.category_code = categoryCode
                          /\ \E n \in RankNodes : n.id = x.node_id /\ n.counts_to_overall}}

\* The node ranking row of a competitor at a node of its category.
NodeRow(eventId, categoryCode, competitorId, nodeId) ==
  CHOOSE r \in rankings[1].category_node_rankings :
    /\ r.event_id = eventId
    /\ r.category_code = categoryCode
    /\ r.competitor_id = competitorId
    /\ r.node_id = nodeId

\* The overall scores read over a ledger.
ScoresOf(rows) == category_overall_scores([RankDb EXCEPT !.attempts = rows])

\* The attempts of a ledger at the nodes flagged counts_to_overall.
CountedOnly(rows) ==
  {a \in rows : \E n \in RankNodes : n.id = a.node_id /\ n.counts_to_overall}

\* The overall scores are those of the ledger without its attempts at the
\* nodes that are not counted.
UncountedContributeNothing ==
  rankings # Null =>
    rankings[1].category_overall_scores = ScoresOf(CountedOnly(attempts))

\* The overall score rows are the sums over the counted nodes.
ScoresOverCountedNodes ==
  rankings # Null =>
    \A s \in rankings[1].category_overall_scores :
      LET counted == CountedNodes(s.event_id, s.category_code)
          placementAt == [n \in counted |->
                            NodeRow(s.event_id, s.category_code, s.competitor_id, n).placement]
      IN /\ s.placement_sum = SumOver(placementAt, counted)
         /\ s.counted_nodes = Cardinality(counted)
         /\ (s.has_non_time = Some(TRUE)) <=>
              \E n \in counted :
                NodeRow(s.event_id, s.category_code, s.competitor_id, n).status # "time"

\* C20: for every (event, category, competitor) placement_sum is the sum of
\* the placements over exactly the counted nodes of the category,
\* counted_nodes is their number and has_non_time is true exactly when one
\* of them has a status other than time; and the overall scores, from which
\* alone the category leaderboard is computed, are the same as over the
\* ledger without the attempts at nodes that are not counted, so that two
\* ledgers which differ only by recorded or corrected attempts at such nodes
\* have the same scores.
C20_OverallScores ==
  /\ ScoresOverCountedNodes
  /\ UncountedContributeNothing

\* The views have been read from a ledger where a competitor has a time at
\* the node that is not counted and nothing at the two counted nodes of a
\* category of three: the sum is 3 + 3 and the first place at the uncounted
\* node adds nothing.
C20_Witness ==
  /\ rankings # Null
  /\ \E s \in rankings[1].category_overall_scores :
       /\ s.placement_sum = 6
       /\ s.counted_nodes = 2
       /\ s.has_non_time = Some(TRUE)
       /\ \E r \in rankings[1].category_node_rankings :
            /\ r.competitor_id = s.competitor_id
            /\ r.category_code = s.category_code
            /\ r.node_id \notin CountedNodes(s.event_id, s.category_code)
            /\ r.status = "time"
            /\ r.placement = 1

\* ------------------------------------------------------------------------
\* The admin router: PATCH /admin/competitors/:competitorId and
\* POST /admin/competitors/:competitorId/token

\* Path parameters: c9 is a uuid of no competitor, the empty string is not a
\* uuid.
CompetitorIdInputs == CompetitorIds \cup {"c9", ""}

\* Bodies of PATCH, with the two columns that carry a constraint: a field
\* that is absent is Null.  Category X does not exist and start number -1 is
\* refused by the schema.
PatchPayloads ==
  { [categoryCode |-> Null, startNumber |-> Null],
    [categoryCode |-> Some("M"), startNumber |-> Null],
    [categoryCode |-> Some("X"), startNumber |-> Null],
    [categoryCode |-> Null, startNumber |-> Some(2)],
    [categoryCode |-> Null, startNumber |-> Some(-1)] }

\* The callers of the admin router: the admin of event e1 and the actors
\* of another role.
AdminCallers == EventAdmins \cup {a \in Actors : a.role # "admin"}

\* updateCompetitorSchema.parse succeeds.
updateCompetitorSchema(payload) ==
  payload.startNumber = Null \/ payload.startNumber[1] >= 0

\* res.json(body) of the admin router.
JsonResponse(p, status, body) ==
  [slot |-> p, request |-> NoReq, status |-> status, error |-> "none",
   attempt |-> Null, body |-> body]

\* updatePayload of PATCH applied to a row.
ApplyCompetitorUpdate(row, payload) ==
  [row EXCEPT
     !.category_code = IF payload.categoryCode = Null THEN @ ELSE payload.categoryCode[1],
     !.start_number = IF payload.startNumber = Null THEN @ ELSE payload.startNumber]

\* unique (event_id, start_number) would be violated by the updated row.
StartNumberTaken(row) ==
  \E c \in competitors :
    /\ c.id # row.id
    /\ c.event_id = row.event_id
    /\ row.start_number # Null
    /\ c.start_number = row.start_number

\* router.use(requireRole('admin')), then the handler up to its first
\* storage call.
PatchCompetitorBegin(p) ==
  /\ FirstFree(p)
  /\ calls < MaxCalls
  /\ calls' = calls + 1
  /\ UNCHANGED <<attempts, audit, nextId, rankings, competitors, qr_tokens, pageVars, authVars>>
  /\ \E auth \in AdminCallers :
       \E competitorId \in IF requireRole({"admin"}, auth)
                             THEN CompetitorIdInputs ELSE {""} :
         \E payload \in IF requireRole({"admin"}, auth)
                          THEN PatchPayloads
                          ELSE {CHOOSE b \in PatchPayloads : TRUE} :
           IF ~requireRole({"admin"}, auth)
             THEN Throw(p, HttpError(403, "Forbidden"))
           ELSE IF competitorId = ""
             THEN Throw(p, ZodError)
           ELSE /\ pc' = [pc EXCEPT ![p] = "patchSelect"]
                /\ req' = [req EXCEPT ![p] =
                             [route |-> "patch", auth |-> auth,
                              competitorId |-> competitorId, payload |-> payload]]
                /\ sent' = NoRes
                /\ UNCHANGED loc

\* The competitor query answers; the body is parsed after it.
PatchCompetitorSelect(p) ==
  /\ pc[p] = "patchSelect"
  /\ UNCHANGED <<attempts, audit, nextId, calls, rankings, competitors, qr_tokens, pageVars, authVars>>
  /\ LET found == {c \in competitors : c.id = req[p].competitorId}
         payload == req[p].payload
     IN \/ Throw(p, HttpError(500, "Competitor not found"))
        \/ IF found = {} \/ \E c \in found : c.event_id # req[p].auth.eventId
             THEN Throw(p, HttpError(404, "Competitor not found"))
           ELSE IF ~updateCompetitorSchema(payload)
             THEN Throw(p, ZodError)
           ELSE IF payload.categoryCode # Null
             THEN Goto(p, "patchCategory",
                       [loc[p] EXCEPT !.competitor = Some(CHOOSE c \in found : TRUE)])
           ELSE IF payload.startNumber = Null
             THEN Finish(p, JsonResponse(p, 200, CHOOSE c \in found : TRUE))
           ELSE Goto(p, "patchUpdate",
                     [loc[p] EXCEPT !.competitor = Some(CHOOSE c \in found : TRUE)])

\* assertCategoryExists(req.auth.eventId, payload.categoryCode)
PatchCompetitorCategory(p) ==
  /\ pc[p] = "patchCategory"
  /\ UNCHANGED <<attempts, audit, nextId, calls, rankings, competitors, qr_tokens, pageVars, authVars>>
  /\ \/ Throw(p, HttpError(500, "Category not found"))
     \/ IF \E c \in CategoryRows : /\ c.event_id = req[p].auth.eventId
                                   /\ c.code = req[p].payload.categoryCode[1]
          THEN Goto(p, "patchUpdate", loc[p])
          ELSE Throw(p, HttpError(404, "Category not found"))

\* update competitors ... .eq('id', competitorId)
PatchCompetitorUpdate(p) ==
  /\ pc[p] = "patchUpdate"
  /\ UNCHANGED <<attempts, audit, nextId, calls, rankings, qr_tokens, pageVars, authVars>>
  /\ LET found == {c \in competitors : c.id = req[p].competitorId} IN
       \/ /\ Throw(p, HttpError(500, "Failed to update competitor"))
          /\ UNCHANGED competitors
       \/ IF found = {}
            THEN /\ Throw(p, HttpError(500, "Competitor update failed"))
                 /\ UNCHANGED competitors
            ELSE LET row == CHOOSE c \in found : TRUE
                     updated == ApplyCompetitorUpdate(row, req[p].payload)
                 IN IF StartNumberTaken(updated)
                      THEN /\ Throw(p, HttpError(409, "Competitor with this start number already exists"))
                           /\ UNCHANGED competitors
                      ELSE /\ competitors' = (competitors \ {row}) \cup {updated}
                           /\ Goto(p, "patchAudit",
                                   [loc[p] EXCEPT !.updatedCompetitor = Some(updated)])

\* Variant: the entry of a competitor update replaces the entry of the
\* previous update of the same competitor instead of being added.
PatchCompetitorAudit_Overwrite(p) ==
  /\ pc[p] = "patchAudit"
  /\ UNCHANGED <<attempts, nextId, calls, rankings, competitors, qr_tokens, pageVars, authVars>>
  /\ LET row == AuditRow(req[p].auth.eventId, Null, req[p].competitorId, Null, Null,
                         "competitor_updated", loc[p].competitor,
                         loc[p].updatedCompetitor, req[p].auth)
         previous == {i \in 1 .. Len(audit) :
                        /\ audit[i].action = "competitor_updated"
                        /\ audit[i].competitor_id = req[p].competitorId}
     IN \/ /\ Throw(p, HttpError(500, "Failed to insert audit log"))
           /\ UNCHANGED audit
        \/ /\ audit' = IF previous = {}
                         THEN Append(audit, row)
                         ELSE [audit EXCEPT ![CHOOSE i \in previous : TRUE] = row]
           /\ Finish(p, JsonResponse(p, 200, loc[p].updatedCompetitor[1]))

\* insertAuditLog({ action: 'competitor_updated', ... }), then the answer.
PatchCompetitorAudit(p) ==
  /\ pc[p] = "patchAudit"
  /\ UNCHANGED <<attempts, nextId, calls, rankings, competitors, qr_tokens, pageVars, authVars>>
  /\ \/ /\ Throw(p, HttpError(500, "Failed to insert audit log"))
        /\ UNCHANGED audit
     \/ /\ audit' = Append(audit,
             AuditRow(req[p].auth.eventId, Null, req[p].competitorId, Null, Null,
                      "competitor_updated", loc[p].competitor,
                      loc[p].updatedCompetitor, req[p].auth))
        /\ Finish(p, JsonResponse(p, 200, loc[p].updatedCompetitor[1]))

\* router.use(requireRole('admin')), then the handler up to its first
\* storage call.  regenerate defaults to true.
IssueTokenBegin(p) ==
  /\ FirstFree(p)
  /\ calls < MaxCalls
  /\ calls' = calls + 1
  /\ UNCHANGED <<attempts, audit, nextId, rankings, competitors, qr_tokens, pageVars, authVars>>
  /\ \E auth \in AdminCallers :
       \E competitorId \in IF requireRole({"admin"}, auth)
                             THEN CompetitorIdInputs ELSE {""} :
         \E regenerate \in IF requireRole({"admin"}, auth)
                             THEN BOOLEAN ELSE {TRUE} :
           IF ~requireRole({"admin"}, auth)
             THEN Throw(p, HttpError(403, "Forbidden"))
           ELSE IF competitorId = ""
             THEN Throw(p, ZodError)
           ELSE /\ pc' = [pc EXCEPT ![p] = "tokenSelect"]
                /\ req' = [req EXCEPT ![p] =
                             [route |-> "token", auth |-> auth,
                              competitorId |-> competitorId,
                              regenerate |-> regenerate]]
                /\ sent' = NoRes
                /\ UNCHANGED loc

\* The competitor query answers.
IssueTokenSelect(p) ==
  /\ pc[p] = "tokenSelect"
  /\ UNCHANGED <<attempts, audit, nextId, calls, rankings, competitors, qr_tokens, pageVars, authVars>>
  /\ LET found == {c \in competitors : c.id = req[p].competitorId} IN
       \/ Throw(p, HttpError(500, "Competitor not found"))
       \/ IF found = {} \/ \E c \in found : c.event_id # req[p].auth.eventId
            THEN Throw(p, HttpError(404, "Competitor not found"))
            ELSE LET competitor == CHOOSE c \in found : TRUE IN
                 IF ~req[p].regenerate /\ competitor.qr_token # Null
                   THEN Finish(p, JsonResponse(p, 200, competitor.qr_token[1]))
                 ELSE IF req[p].regenerate /\ competitor.qr_token # Null
                   THEN Goto(p, "tokenRevoke",
                             [loc[p] EXCEPT !.competitor = Some(competitor)])
                 ELSE Goto(p, "tokenGenerate",
                           [loc[p] EXCEPT !.competitor = Some(competitor)])

\* update qr_tokens set revoked_at = now where competitor, event and
\* revoked_at is null
IssueTokenRevoke(p) ==
  /\ pc[p] = "tokenRevoke"
  /\ UNCHANGED <<attempts, audit, nextId, calls, rankings, competitors, pageVars, authVars>>
  /\ \/ /\ Throw(p, HttpError(500, "Failed to revoke previous tokens"))
        /\ UNCHANGED qr_tokens
     \/ /\ qr_tokens' =
             { IF /\ t.competitor_id = req[p].competitorId
                  /\ t.event_id = loc[p].competitor[1].event_id
                  /\ ~t.revoked
                 THEN [t EXCEPT !.revoked = TRUE] ELSE t : t \in qr_tokens }
        /\ Goto(p, "tokenRevokeAudit", loc[p])

\* insertAuditLog({ action: 'token_revoked', ... })
IssueTokenRevokeAudit(p) ==
  /\ pc[p] = "tokenRevokeAudit"
  /\ UNCHANGED <<attempts, nextId, calls, rankings, competitors, qr_tokens, pageVars, authVars>>
  /\ \/ /\ Throw(p, HttpError(500, "Failed to insert audit log"))
        /\ UNCHANGED audit
     \/ /\ audit' = Append(audit,
             AuditRow(loc[p].competitor[1].event_id, Null, req[p].competitorId,
                      Null, Null, "token_revoked",
                      Some([token |-> loc[p].competitor[1].qr_token[1]]), Null,
                      req[p].auth))
        /\ Goto(p, "tokenGenerate", loc[p])

\* generateUniqueToken(eventId): the query that ends the loop.  The queries
\* before it found their candidates taken and changed nothing; the loop ends
\* with a candidate that is not in qr_tokens of the event, with a failed
\* query, or after 50 candidates that were all taken.
IssueTokenGenerate(p) ==
  /\ pc[p] = "tokenGenerate"
  /\ UNCHANGED <<attempts, audit, nextId, calls, rankings, competitors, qr_tokens, pageVars, authVars>>
  /\ LET eventId == loc[p].competitor[1].event_id
         taken == {t.token : t \in {x \in qr_tokens : x.event_id = eventId}}
     IN \/ Throw(p, HttpError(500, "Failed to check token uniqueness"))
        \/ /\ taken # {}
           /\ Throw(p, HttpError(500, "Unable to generate unique token"))
        \/ \E candidate \in Tokens \ taken :
             Goto(p, "tokenUpdate", [loc[p] EXCEPT !.token = Some(candidate)])

\* update competitors set qr_token = token where id = competitorId; the
\* unique index on (event_id, qr_token) refuses a token another competitor
\* of the event holds.
IssueTokenUpdate(p) ==
  /\ pc[p] = "tokenUpdate"
  /\ UNCHANGED <<attempts, audit, nextId, calls, rankings, qr_tokens, pageVars, authVars>>
  /\ LET found == {c \in competitors : c.id = req[p].competitorId} IN
       \/ /\ Throw(p, HttpError(500, "Failed to store QR token"))
          /\ UNCHANGED competitors
       \/ /\ ~ \E c \in competitors, r \in found :
                 /\ c.id # r.id
                 /\ c.event_id = r.event_id
                 /\ c.qr_token = loc[p].token
          /\ competitors' =
               { IF c \in found THEN [c EXCEPT !.qr_token = loc[p].token] ELSE c :
                   c \in competitors }
          /\ Goto(p, "tokenInsert", loc[p])

\* insert into qr_tokens; unique (event_id, token).
IssueTokenInsert(p) ==
  /\ pc[p] = "tokenInsert"
  /\ UNCHANGED <<attempts, audit, nextId, calls, rankings, competitors, pageVars, authVars>>
  /\ LET eventId == loc[p].competitor[1].event_id IN
       \/ /\ Throw(p, HttpError(500, "Failed to persist QR token"))
          /\ UNCHANGED qr_tokens
       \/ /\ ~ \E t \in qr_tokens : t.event_id = eventId /\ t.token = loc[p].token[1]
          /\ qr_tokens' = qr_tokens \cup
               { [event_id |-> eventId, competitor_id |-> req[p].competitorId,
                  token |-> loc[p].token[1], issued_by |-> req[p].auth.userId,
                  revoked |-> FALSE] }
          /\ Goto(p, "tokenAudit", loc[p])

\* insertAuditLog({ action: 'token_generated', ... }), then the answer.
IssueTokenAudit(p) ==
  /\ pc[p] = "tokenAudit"
  /\ UNCHANGED <<attempts, nextId, calls, rankings, competitors, qr_tokens, pageVars, authVars>>
  /\ \/ /\ Throw(p, HttpError(500, "Failed to insert audit log"))
        /\ UNCHANGED audit
     \/ /\ audit' = Append(audit,
             AuditRow(loc[p].competitor[1].event_id, Null, req[p].competitorId,
                      Null, Null, "token_generated", Null,
                      Some([token |-> loc[p].token[1]]), req[p].auth))
        /\ Finish(p, JsonResponse(p, 200, loc[p].token[1]))

\* A third specification: the requests of judges, calculators and admins
\* served one at a time.
NextAdmin ==
  \E p \in {1} :
    \/ PostAttemptsBegin(p)
    \/ PostAttemptsLoad(p)
    \/ PostAttemptsInsert(p)
    \/ PostAttemptsLock(p)
    \/ PostAttemptsAudit(p)
    \/ PutAttemptBegin(p)
    \/ PutAttemptSelect(p)
    \/ PutAttemptUpdate(p)
    \/ PutAttemptAudit(p)
    \/ PatchCompetitorBegin(p)
    \/ PatchCompetitorSelect(p)
    \/ PatchCompetitorCategory(p)
    \/ PatchCompetitorUpdate(p)
    \/ PatchCompetitorAudit(p)
    \/ IssueTokenBegin(p)
    \/ IssueTokenSelect(p)
    \/ IssueTokenRevoke(p)
    \/ IssueTokenRevokeAudit(p)
    \/ IssueTokenGenerate(p)
    \/ IssueTokenUpdate(p)
    \/ IssueTokenInsert(p)
    \/ IssueTokenAudit(p)

SpecAdmin == Init /\ [][NextAdmin]_vars

\* ------------------------------------------------------------------------
\* The audit log is append-only

\* C14: every step of a judge, calculator or admin request (recording or
\* correcting an attempt, updating a competitor, issuing or reissuing an
\* access token) leaves each entry of the audit log in its place with its
\* content: the log after the step is the log before it, possibly followed
\* by new entries.
C14_AuditLogAppendOnly ==
  [][/\ Len(audit') >= Len(audit)
     /\ SubSeq(audit', 1, Len(audit)) = audit]_vars

\* The log holds three entries, of an attempt recorded, a competitor updated
\* and a token issued: the later operations have left the earlier entries.
C14_Witness ==
  /\ Len(audit) = 3
  /\ \E i \in 1 .. Len(audit) : audit[i].action = "attempt_created"
  /\ \E i \in 1 .. Len(audit) : audit[i].action = "competitor_updated"
  /\ \E i \in 1 .. Len(audit) : audit[i].action = "token_generated"

\* ------------------------------------------------------------------------
\* Tie-break sums

\* The sum of the best times of a competitor over the nodes of a set where
\* it has a time, read from the node rankings; 0 when it has none.
BestTimeSum(eventId, categoryCode, competitorId, nodeIds) ==
  LET timed == {n \in nodeIds :
                  NodeRow(eventId, categoryCode, competitorId, n).best_centiseconds # Null}
  IN SumOver([n \in timed |->
                NodeRow(eventId, categoryCode, competitorId, n).best_centiseconds[1]],
             timed)

\* The nodes of a category that are flagged is_relay.
RelayNodes(eventId, categoryCode) ==
  {cn.node_id : cn \in {x \in RankCategoryNodes :
                          /\ x.event_id = eventId
                          /\ x.category_code = categoryCode
                          /\ \E n \in RankNodes : n.id = x.node_id /\ n.is_relay}}

\* C21: the tie-break value of a node row is the best time of a finisher
\* and absent otherwise, and the tie-break sum of every category leaderboard
\* entry and of every relay leaderboard entry is the sum of the best times
\* over the counted (relay) nodes where the competitor has a time: a number,
\* 0 when the competitor has no time at any of them.
C21_TieBreakSumIsANumber ==
  rankings # Null =>
    /\ \A r \in rankings[1].category_node_rankings :
         r.tie_break_centiseconds =
           IF r.status = "time" THEN r.best_centiseconds ELSE Null
    /\ \A s \in rankings[1].category_leaderboards :
         s.tie_break_centiseconds_sum =
           Some(BestTimeSum(s.event_id, s.category_code, s.competitor_id,
                            CountedNodes(s.event_id, s.category_code)))
    /\ \A s \in rankings[1].relay_leaderboards :
         s.tie_break_centiseconds_sum =
           Some(BestTimeSum(s.event_id, s.category_code, s.competitor_id,
                            RelayNodes(s.event_id, s.category_code)))

\* ------------------------------------------------------------------------
\* The category leaderboard

\* The tie-break sum of an entry as a number, an absent sum counting as 0.
TieBreakSum(entry) ==
  IF entry.tie_break_centiseconds_sum = Null
    THEN 0 ELSE entry.tie_break_centiseconds_sum[1]

\* (placementSum, tieBreakSum) of x is lexicographically smaller than that
\* of y.
LexSmaller(x, y) ==
  \/ x.placement_sum < y.placement_sum
  \/ x.placement_sum = y.placement_sum /\ TieBreakSum(x) < TieBreakSum(y)

\* The entries of the category leaderboard of a category.
LeaderboardOf(eventId, categoryCode) ==
  {x \in rankings[1].category_leaderboards :
     x.event_id = eventId /\ x.category_code = categoryCode}

\* C22: of two entries of one category leaderboard the one with the
\* lexicographically smaller (placementSum, tieBreakSum) has the strictly
\* smaller overall_rank, two entries share an overall_rank exactly when
\* their pairs are equal, and the ranks are consecutive from 1.
C22_OverallRankIsDense ==
  rankings # Null =>
    \A x \in rankings[1].category_leaderboards :
      LET board == LeaderboardOf(x.event_id, x.category_code) IN
        /\ \A y \in board :
             /\ LexSmaller(x, y) => x.overall_rank < y.overall_rank
             /\ (x.overall_rank = y.overall_rank) <=>
                  /\ x.placement_sum = y.placement_sum
                  /\ TieBreakSum(x) = TieBreakSum(y)
        /\ {y.overall_rank : y \in board} =
             1 .. Cardinality({<<y.placement_sum, TieBreakSum(y)>> : y \in board})

\* The views have been read from a ledger where two competitors of a
\* category have the same placement sum and different tie-break sums: the
\* smaller tie-break sum has the smaller rank.
C22_Witness ==
  /\ rankings # Null
  /\ \E x, y \in rankings[1].category_leaderboards :
       /\ x.event_id = y.event_id
       /\ x.category_code = y.category_code
       /\ x.placement_sum = y.placement_sum
       /\ x.tie_break_centiseconds_sum # Null
       /\ y.tie_break_centiseconds_sum # Null
       /\ TieBreakSum(x) < TieBreakSum(y)
       /\ x.overall_rank < y.overall_rank

\* ------------------------------------------------------------------------
\* The worked example of the leaderboard

\* The time attempts stored, as (competitor, node, centiseconds).
TimesStored ==
  {<<a.competitor_id, a.node_id, a.centiseconds[1]>> :
     a \in {x \in attempts : x.result_kind = "time"}}

\* A (k1) has 1500 at node1 (AMB) and 1800 at node2 (LOD), B (k2) has 1200
\* at node1 and nothing at node2, and the views have been read.
PairScenario ==
  /\ rankings # Null
  /\ Cardinality(attempts) = 3
  /\ TimesStored = {<<"k1", "AMB", 1500>>, <<"k1", "LOD", 1800>>, <<"k2", "AMB", 1200>>}

\* The placement of a competitor at a node of category N in the views read.
PlacementAt(competitorId, nodeId) ==
  (CHOOSE r \in rankings[1].category_node_rankings :
     /\ r.category_code = "N"
     /\ r.competitor_id = competitorId
     /\ r.node_id = nodeId).placement

\* The category leaderboard entry of a competitor in the views read.
EntryOf(competitorId) ==
  CHOOSE x \in rankings[1].category_leaderboards : x.competitor_id = competitorId

\* C23: in the scenario the placements at node1 are B 1 and A 2, at node2
\* A 1 and B 2, both placement sums are 3, the tie-break sums are 3300 for A
\* and 1200 for B, and the leaderboard ranks B first and A second.
C23_WorkedExample ==
  PairScenario =>
    /\ PlacementAt("k2", "AMB") = 1
    /\ PlacementAt("k1", "AMB") = 2
    /\ PlacementAt("k1", "LOD") = 1
    /\ PlacementAt("k2", "LOD") = 2
    /\ EntryOf("k1").placement_sum = 3
    /\ EntryOf("k2").placement_sum = 3
    /\ EntryOf("k1").tie_break_centiseconds_sum = Some(3300)
    /\ EntryOf("k2").tie_break_centiseconds_sum = Some(1200)
    /\ EntryOf("k2").overall_rank = 1
    /\ EntryOf("k1").overall_rank = 2

\* The scenario has been recorded and read, and the leaderboard of the
\* category holds two entries.
C23_Witness ==
  /\ PairScenario
  /\ Cardinality({x \in rankings[1].category_leaderboards : x.category_code = "N"}) = 2

\* ------------------------------------------------------------------------
\* The competitor count of a leaderboard entry

\* The competitors registered in a category of the second configuration.
PairCategory(eventId, categoryCode) ==
  {c \in PairCompetitors : c.event_id = eventId /\ c.category_code = categoryCode}

\* C24: competitor_count of every category leaderboard entry is the number
\* of competitors registered in the category of the entry, whatever has
\* been recorded and whether or not the category has a counted node.
C24_CompetitorCount ==
  rankings # Null =>
    \A x \in rankings[1].category_leaderboards :
      x.competitor_count = Cardinality(PairCategory(x.event_id, x.category_code))

\* The views have been read while no attempt is stored: the category with
\* two counted nodes has entries with count 2, and the category whose only
\* node is not counted has an entry with count 1.
C24_Witness ==
  /\ rankings # Null
  /\ attempts = {}
  /\ \E x \in rankings[1].category_leaderboards :
       x.category_code = "N" /\ x.counted_nodes = 2 /\ x.competitor_count = 2
  /\ \E x \in rankings[1].category_leaderboards :
       x.category_code = "M" /\ x.counted_nodes = 0 /\ x.competitor_count = 1

\* ------------------------------------------------------------------------
\* The relay leaderboard

\* The database with the counts_to_overall flag of one node flipped.
FlipCountsToOverall(db, nodeId) ==
  [db EXCEPT !.nodes =
     { IF n.id = nodeId
         THEN [n EXCEPT !.counts_to_overall = ~n.counts_to_overall] ELSE n :
         n \in db.nodes }]

\* The database with the is_relay flag of one node flipped.
FlipIsRelay(db, nodeId) ==
  [db EXCEPT !.nodes =
     { IF n.id = nodeId THEN [n EXCEPT !.is_relay = ~n.is_relay] ELSE n :
         n \in db.nodes }]

\* The nodes of a category of the second configuration that are flagged
\* is_relay.
PairRelayNodes(eventId, categoryCode) ==
  {cn.node_id : cn \in {x \in PairCategoryNodes :
                          /\ x.event_id = eventId
                          /\ x.category_code = categoryCode
                          /\ \E n \in PairNodes : n.id = x.node_id /\ n.is_relay}}

\* The entries of the relay leaderboard of a category.
RelayBoardOf(eventId, categoryCode) ==
  {x \in rankings[1].relay_leaderboards :
     x.event_id = eventId /\ x.category_code = categoryCode}

\* The relay leaderboard sums the placements and the best times over the
\* relay nodes of the category and ranks densely by the pair of sums.
RelayOverRelayNodes ==
  \A s \in rankings[1].relay_leaderboards :
    LET relay == PairRelayNodes(s.event_id, s.category_code)
        board == RelayBoardOf(s.event_id, s.category_code)
    IN /\ relay # {}
       /\ s.placement_sum =
            SumOver([n \in relay |->
                       NodeRow(s.event_id, s.category_code, s.competitor_id, n).placement],
                    relay)
       /\ TieBreakSum(s) =
            BestTimeSum(s.event_id, s.category_code, s.competitor_id, relay)
       /\ s.counted_nodes = Cardinality(relay)
       /\ \A y \in board :
            /\ LexSmaller(s, y) => s.relay_rank < y.relay_rank
            /\ (s.relay_rank = y.relay_rank) <=>
                 /\ s.placement_sum = y.placement_sum
                 /\ TieBreakSum(s) = TieBreakSum(y)
       /\ {y.relay_rank : y \in board} =
            1 .. Cardinality({<<y.placement_sum, TieBreakSum(y)>> : y \in board})

\* C25: the relay leaderboard is computed over exactly the relay nodes by
\* the procedure of the category leaderboard; it is the same when the
\* counts_to_overall flag of any one node is flipped, and the category
\* leaderboard is the same when the is_relay flag of any one node is
\* flipped.
C25_RelayIndependentOfCounted ==
  rankings # Null =>
    /\ RelayOverRelayNodes
    /\ \A n \in PairNodes :
         /\ relay_leaderboards(FlipCountsToOverall(PairDb, n.id))
              = rankings[1].relay_leaderboards
         /\ category_leaderboards(FlipIsRelay(PairDb, n.id))
              = rankings[1].category_leaderboards

\* The views have been read from a ledger where the two competitors of a
\* category have different times at the relay node and one of them a time at
\* a counted node: the relay leaderboard ranks them 1 and 2 with the relay
\* times as tie-break sums.
C25_Witness ==
  /\ rankings # Null
  /\ \E x, y \in rankings[1].relay_leaderboards :
       /\ x.category_code = y.category_code
       /\ x.relay_rank = 1 /\ x.tie_break_centiseconds_sum = Some(1200)
       /\ y.relay_rank = 2 /\ y.tie_break_centiseconds_sum = Some(1500)
  /\ \E a \in attempts :
       \E n \in PairNodes : n.id = a.node_id /\ n.counts_to_overall

\* ------------------------------------------------------------------------
\* Submissions and corrections for several (competitor, node) pairs, served
\* on both request slots

\* Two judges of event e1, one at node n1 and one at node n3, who take the
\* competitors of category N.
StationJudges ==
  { [userId |-> "u6", role |-> "judge", eventId |-> "e1",
     nodeIds |-> {"n1"}, allowedCategories |-> {"N"}],
    [userId |-> "u7", role |-> "judge", eventId |-> "e1",
     nodeIds |-> {"n3"}, allowedCategories |-> {"N"}] }

\* The calculator of event e1.
StationCalculators == {a \in Actors : a.role = "calculator" /\ a.eventId = "e1"}

\* The well-formed submissions of a time a judge makes within their scope:
\* at their node, for a competitor of their event and categories.
StationPayloads(auth) ==
  { b \in AttemptPayloads :
      /\ attemptPayloadSchema(b)
      /\ ScopeError(auth, b) = Null
      /\ b.result.kind = "time" }

\* recordAttempt: a judge submits an attempt of a competitor at their node.
RecordAttemptBegin(p) ==
  /\ FirstFree(p)
  /\ UNCHANGED <<rankings, competitors, qr_tokens, pageVars, authVars>>
  /\ calls < MaxCalls
  /\ calls' = calls + 1
  /\ UNCHANGED <<attempts, audit, nextId>>
  /\ \E auth \in StationJudges :
       \E payload \in StationPayloads(auth) :
         PostAttemptsRequest(p, auth, payload)

\* amendAttempt: the calculator corrects an attempt that is on the ledger.
AmendAttemptBegin(p) ==
  /\ FirstFree(p)
  /\ UNCHANGED <<rankings, competitors, qr_tokens, pageVars, authVars>>
  /\ calls < MaxCalls
  /\ calls' = calls + 1
  /\ UNCHANGED <<attempts, audit, nextId>>
  /\ \E auth \in StationCalculators :
       \E attemptId \in {r.id : r \in attempts} :
         \E payload \in {b \in UpdatePayloads : attemptUpdateSchema(b)} :
           PutAttemptRequest(p, auth, attemptId, payload)

NextStations ==
  \E p \in Procs :
    \/ RecordAttemptBegin(p)
    \/ PostAttemptsLoad(p)
    \/ PostAttemptsInsert(p)
    \/ PostAttemptsLock(p)
    \/ PostAttemptsAudit(p)
    \/ AmendAttemptBegin(p)
    \/ PutAttemptSelect(p)
    \/ PutAttemptUpdate(p)
    \/ PutAttemptAudit(p)

SpecStations == Init /\ [][NextStations]_vars

\* The (competitor, node) pair the call of slot p is about: the pair of the
\* submission, or the pair of the attempt a correction names.
CallPair(p) ==
  IF req[p].route = "post"
    THEN <<req[p].payload.competitorId, req[p].payload.nodeId>>
  ELSE IF req[p].route = "put" /\ \E r \in attempts : r.id = req[p].attemptId
    THEN LET r == CHOOSE x \in attempts : x.id = req[p].attemptId
         IN <<r.competitor_id, r.node_id>>
  ELSE <<>>

\* The rows of a pair.
PairRows(pair) == {r \in attempts : <<r.competitor_id, r.node_id>> = pair}

\* The step is one of the call of slot p.
Stepping(p) == pc'[p] # pc[p]

\* A step changes the rows of the pair of the call that takes it, and of no
\* other pair.
OnlyOwnPairChanges ==
  \A c \in CompetitorIds, n \in NodeIds :
    PairRows(<<c, n>>)' # PairRows(<<c, n>>) =>
      \E p \in Procs : Stepping(p) /\ CallPair(p) = <<c, n>>

\* What a step of a submission does is decided by the rows of its pair, the
\* storage failing aside.
RecordDecidedByOwnPair(p) ==
  LET b == req[p].payload
      conflict == ExpectedConflict(b.competitorId, b.nodeId, b.attemptNumber)
      failed(m) == sent'.slot = p /\ StorageFailure(sent', m)
      rejected(m) == sent'.slot = p /\ sent'.status = 409 /\ sent'.error = m
  IN /\ pc[p] = "load" =>
          \/ failed("Failed to load attempts")
          \/ IF conflict = "none" THEN pc'[p] = "insert" ELSE rejected(conflict)
     /\ pc[p] = "insert" =>
          \/ failed("Failed to insert attempt")
          \/ IF RowsOf(b.competitorId, b.nodeId, b.attemptNumber) # {}
               THEN rejected("Attempt already exists")
               ELSE /\ pc'[p] = IF b.attemptNumber = 1 THEN "lock" ELSE "audit"
                    /\ loc'[p].createdAttempt # Null
                    /\ PairRows(CallPair(p))' =
                         PairRows(CallPair(p)) \cup {loc'[p].createdAttempt[1]}
                    /\ ResultColumns(b.result) =
                         ResultColumns(
                           IF loc'[p].createdAttempt[1].result_kind = "time"
                             THEN [kind |-> "time",
                                   centiseconds |->
                                     loc'[p].createdAttempt[1].centiseconds[1]]
                             ELSE [kind |-> "fault",
                                   faultCode |->
                                     loc'[p].createdAttempt[1].fault_code[1]])
     /\ pc[p] = "lock" =>
          \/ failed("Failed to lock attempt 1")
          \/ /\ pc'[p] = "audit"
             /\ \A r \in RowsOf(b.competitorId, b.nodeId, 1)' : r.locked
     /\ pc[p] = "audit" =>
          \/ failed("Failed to insert audit log")
          \/ /\ sent'.slot = p
             /\ sent'.status = 201
             /\ sent'.attempt = loc[p].createdAttempt

\* What a step of a correction does is decided by the attempt it names.
AmendDecidedByOwnPair(p) ==
  LET failed(m) == sent'.slot = p /\ StorageFailure(sent', m)
      named == {r \in PairRows(CallPair(p)) : r.id = req[p].attemptId}
  IN /\ pc[p] = "select" =>
          \/ failed("Attempt not found")
          \/ pc'[p] = "update" /\ loc'[p].attempt \in {Some(r) : r \in named}
     /\ pc[p] = "update" =>
          \/ failed("Failed to update attempt")
          \/ /\ pc'[p] = "audit"
             /\ PairRows(CallPair(p))' =
                  (PairRows(CallPair(p)) \ named)
                    \cup {ApplyUpdate(r, req[p].payload) : r \in named}
             /\ loc'[p].updatedAttempt
                  \in {Some(ApplyUpdate(r, req[p].payload)) : r \in named}
     /\ pc[p] = "audit" =>
          \/ failed("Failed to insert audit log")
          \/ /\ sent'.slot = p
             /\ sent'.status = 200
             /\ sent'.attempt = loc[p].updatedAttempt

\* C26: calls for different (competitor, node) pairs are independent.  A
\* step of a call changes the rows of its own pair only, and what the step
\* does (continue, reject with which conflict, store or correct which row,
\* answer with which attempt) is decided by the call itself and the rows of
\* its own pair, whatever the calls for other pairs have done in between;
\* only a failing storage call makes a difference.
C26_DifferentPairsIndependent ==
  [][ /\ OnlyOwnPairChanges
      /\ \A p \in Procs :
           Stepping(p) =>
             /\ req[p].route = "post" => RecordDecidedByOwnPair(p)
             /\ req[p].route = "put" => AmendDecidedByOwnPair(p)
    ]_vars

\* A submission for one pair and a correction for another are in flight
\* together, the row of the one stored and the row of the other corrected.
C26_Witness ==
  /\ pc[1] = "audit" /\ pc[2] = "audit"
  /\ req[1].route = "post" /\ req[2].route = "put"
  /\ CallPair(1) # CallPair(2)
  /\ loc[1].createdAttempt # Null /\ loc[2].updatedAttempt # Null
  /\ loc[1].createdAttempt[1] \in PairRows(CallPair(1))
  /\ loc[2].updatedAttempt[1] \in PairRows(CallPair(2))

\* ------------------------------------------------------------------------
\* The time field of the attempt forms (utils/time): texts are sequences of
\* characters

Digits == <<"0", "1", "2", "3", "4", "5", "6", "7", "8", "9">>

IsDigit(c) == \E i \in 1 .. Len(Digits) : Digits[i] = c

DigitValue(c) == (CHOOSE i \in 1 .. Len(Digits) : Digits[i] = c) - 1

\* Number.prototype.toString() of a non-negative integer.
RECURSIVE toString(_)
toString(n) ==
  IF n < Len(Digits)
    THEN <<Digits[n + 1]>>
    ELSE toString(n \div Len(Digits)) \o <<Digits[(n % Len(Digits)) + 1]>>

\* String.prototype.padStart(targetLength, padString) with a one-character
\* padString.
padStart(text, targetLength, padString) ==
  IF Len(text) >= targetLength
    THEN text
    ELSE [i \in 1 .. (targetLength - Len(text)) |-> padString] \o text

\* Number.parseInt(text, 10) of a text of digits.
RECURSIVE parseInt(_)
parseInt(text) ==
  IF Len(text) = 0
    THEN 0
    ELSE parseInt(SubSeq(text, 1, Len(text) - 1)) * Len(Digits)
           + DigitValue(text[Len(text)])

\* String.prototype.trim(), for the blank as white space.
RECURSIVE trim(_)
trim(text) ==
  IF Len(text) = 0 THEN text
  ELSE IF text[1] = " " THEN trim(Tail(text))
  ELSE IF text[Len(text)] = " " THEN trim(SubSeq(text, 1, Len(text) - 1))
  ELSE text

\* Variant: the seconds are not reduced modulo 60.
formatCentiseconds_TotalSeconds(value) ==
  IF value = Null
    THEN <<"-">>
    ELSE LET totalSeconds == value[1] \div 100
             centiseconds == value[1] % 100
             minutes == totalSeconds \div 60
         IN padStart(toString(minutes), 2, "0") \o <<":">>
              \o padStart(toString(totalSeconds), 2, "0") \o <<".">>
              \o padStart(toString(centiseconds), 2, "0")

\* formatCentiseconds(value): a dash for null, else mm:ss.cc.
formatCentiseconds(value) ==
  IF value = Null
    THEN <<"-">>
    ELSE LET totalSeconds == value[1] \div 100
             centiseconds == value[1] % 100
             minutes == totalSeconds \div 60
             seconds == totalSeconds % 60
         IN padStart(toString(minutes), 2, "0") \o <<":">>
              \o padStart(toString(seconds), 2, "0") \o <<".">>
              \o padStart(toString(centiseconds), 2, "0")

\* trimmed.match(/^(\d{1,2}):(\d{2})\.(\d{2})$/): the three groups, or Null.
matchTime(trimmed) ==
  LET k == Len(trimmed) - 6
  IN IF /\ k \in {1, 2}
        /\ \A i \in (1 .. k) \cup {k + 2, k + 3, k + 5, k + 6} : IsDigit(trimmed[i])
        /\ trimmed[k + 1] = ":"
        /\ trimmed[k + 4] = "."
       THEN Some(<<SubSeq(trimmed, 1, k), SubSeq(trimmed, k + 2, k + 3),
                   SubSeq(trimmed, k + 5, k + 6)>>)
       ELSE Null

\* parseTimeInput(input): the centiseconds of a text m:ss.cc or mm:ss.cc of
\* at most 20 minutes, or null.
parseTimeInput(input) ==
  LET trimmed == trim(input)
      match == matchTime(trimmed)
  IN IF Len(trimmed) = 0 \/ match = Null
       THEN Null
       ELSE LET minutes == parseInt(match[1][1])
                seconds == parseInt(match[1][2])
                centiseconds == parseInt(match[1][3])
            IN IF seconds >= 60 \/ minutes > 20
                 THEN Null
                 ELSE Some((minutes * 60 + seconds) * 100 + centiseconds)

\* What is typed into the time field: a time with one minute digit, with
\* blanks around it, with 60 seconds, with 21 minutes, with one digit of
\* centiseconds, nothing, and the times 20:00.00, 20:00.01 and 20:59.99.
TimeInputs ==
  { <<"1", ":", "0", "5", ".", "0", "0">>,
    <<" ", "0", "1", ":", "0", "5", ".", "0", "0", " ">>,
    <<"0", "1", ":", "6", "0", ".", "0", "0">>,
    <<"2", "1", ":", "0", "0", ".", "0", "0">>,
    <<"0", "1", ":", "0", "5", ".", "0">>,
    <<>>,
    <<"2", "0", ":", "0", "0", ".", "0", "0">>,
    <<"2", "0", ":", "0", "0", ".", "0", "1">>,
    <<"2", "0", ":", "5", "9", ".", "9", "9">> }

\* The form is opened for a new attempt, or on an attempt with a time
\* within the ceiling.
InitForm ==
  /\ attempts = {}
  /\ audit = <<>>
  /\ nextId = 1
  /\ calls = 0
  /\ pc = [p \in Procs |-> "idle"]
  /\ req = [p \in Procs |-> NoReq]
  /\ loc = [p \in Procs |-> NoLoc]
  /\ sent = NoRes
  /\ rankings = Null
  /\ competitors = CompetitorRows
  /\ qr_tokens = {}
  /\ editing \in {Null} \cup {Some(cs) : cs \in 0 .. MAX_TIME_CENTISECONDS}
  /\ timeValue = <<>>
  /\ parsed = NotParsed
  /\ sessions = {}
  /\ now = 0
  /\ issued = {}

\* startEditing(attempt): the time of the attempt is put in the time field.
startEditing ==
  /\ editing # Null
  /\ timeValue' = formatCentiseconds(editing)
  /\ parsed' = NotParsed
  /\ UNCHANGED editing
  /\ UNCHANGED <<attempts, audit, nextId, calls, pc, req, loc, sent, rankings, competitors, qr_tokens, authVars>>

\* setTimeValue / setTimeInput: a text is typed into the time field of the
\* form for a new attempt.
setTimeValue ==
  /\ editing = Null
  /\ \E input \in TimeInputs : timeValue' = input
  /\ UNCHANGED editing
  /\ parsed' = NotParsed
  /\ UNCHANGED <<attempts, audit, nextId, calls, pc, req, loc, sent, rankings, competitors, qr_tokens, authVars>>

\* handleSave / handleTimeSubmit: the time field is parsed.
handleSave ==
  /\ ~parsed.done
  /\ parsed' = [done |-> TRUE, value |-> parseTimeInput(timeValue)]
  /\ UNCHANGED <<editing, timeValue>>
  /\ UNCHANGED <<attempts, audit, nextId, calls, pc, req, loc, sent, rankings, competitors, qr_tokens, authVars>>

NextForm == startEditing \/ setTimeValue \/ handleSave

SpecForm == InitForm /\ [][NextForm]_vars

\* The text mm:ss.cc of cs centiseconds.
TimeText(cs) ==
  LET minutes == cs \div 6000
      seconds == (cs \div 100) % 60
      centi == cs % 100
  IN << Digits[(minutes \div 10) + 1], Digits[(minutes % 10) + 1], ":",
        Digits[(seconds \div 10) + 1], Digits[(seconds % 10) + 1], ".",
        Digits[(centi \div 10) + 1], Digits[(centi % 10) + 1] >>

\* The times that differ from cs in one place of the text, or by one in a
\* neighbouring place.
Neighbours(cs) ==
  {n \in {cs + d : d \in {-60000, -6000, -5999, -1000, -100, -99, -10, -1,
                           1, 10, 99, 100, 1000, 5999, 6000, 60000}} :
     n \in 0 .. MAX_TIME_CENTISECONDS}

\* The time field holds the text startEditing has put there.
Formatted == editing # Null /\ timeValue # <<>>

\* C27: for every cs in [0, 120000] the text formatCentiseconds makes of cs
\* is mm:ss.cc with minutes = floor(cs/6000), seconds = floor(cs/100) mod 60
\* and centi = cs mod 100, parseTimeInput makes cs of that text again, and
\* the texts of different times differ.
C27_FormatParseInverse ==
  /\ Formatted =>
       /\ timeValue = TimeText(editing[1])
       /\ \A other \in Neighbours(editing[1]) :
            formatCentiseconds(Some(other)) # timeValue
  /\ (Formatted /\ parsed.done) => parsed.value = editing

\* The ceiling of 20 minutes has been formatted and parsed back.
C27_Witness ==
  /\ editing = Some(MAX_TIME_CENTISECONDS)
  /\ timeValue = <<"2", "0", ":", "0", "0", ".", "0", "0">>
  /\ parsed = [done |-> TRUE, value |-> Some(MAX_TIME_CENTISECONDS)]

\* ------------------------------------------------------------------------
\* Station lookup by access token (GET /judge/competitors/lookup)

\* loadCompetitorByToken(eventId, token): the competitors the storage
\* answers with (none: 404 'Competitor not found').  The competitor of the
\* event that holds the token is looked up first, then the unrevoked row of
\* qr_tokens with the token and through it the competitor.
loadCompetitorByToken(eventId, token) ==
  LET competitor == {c \in competitors :
                       c.event_id = eventId /\ c.qr_token = Some(token)}
      qrToken == {t \in qr_tokens :
                    t.event_id = eventId /\ t.token = token /\ ~t.revoked}
  IN IF competitor # {}
       THEN competitor
       ELSE {c \in competitors : \E t \in qrToken : c.id = t.competitor_id}

\* The tokens a station lookup in the competitor's event resolves to the
\* competitor.
ActiveTokens(competitorId) ==
  {token \in Tokens :
     \E c \in competitors :
       /\ c.id = competitorId
       /\ c \in loadCompetitorByToken(c.event_id, token)}

\* The step answers a reissue of slot p with the new token: the competitor
\* held a token when the request found it, and regenerate was set.
ReissueAnswered(p) ==
  /\ pc[p] = "tokenAudit"
  /\ req[p].regenerate
  /\ loc[p].competitor[1].qr_token # Null
  /\ sent'.slot = p
  /\ sent'.status = 200

\* C28: when a reissue is answered, the old token no longer resolves to the
\* competitor in a station lookup, a revoked qr_tokens row with the old
\* token is still there and no qr_tokens row has gone, the audit log has
\* got a token_revoked entry with the old token and a token_generated entry
\* with the new one, and the new token resolves to the competitor.
C28_ReissueInvalidatesAndKeeps ==
  [][ \A p \in {1}, id \in CompetitorIds, old \in Tokens, new \in Tokens :
        ( /\ ReissueAnswered(p)
          /\ req[p].competitorId = id
          /\ loc[p].competitor[1].qr_token = Some(old)
          /\ loc[p].token = Some(new) ) =>
             /\ sent'.body = new
             /\ old \notin ActiveTokens(id)'
             /\ new \in ActiveTokens(id)'
             /\ \E t \in qr_tokens' :
                  /\ t.token = old
                  /\ t.competitor_id = id
                  /\ t.event_id = loc[p].competitor[1].event_id
                  /\ t.revoked
             /\ \A t \in qr_tokens :
                  \E u \in qr_tokens' :
                    /\ u.token = t.token
                    /\ u.competitor_id = t.competitor_id
                    /\ u.event_id = t.event_id
                    /\ (t.revoked => u.revoked)
             /\ Len(audit') = Len(audit) + 1
             /\ SubSeq(audit', 1, Len(audit)) = audit
             /\ audit'[Len(audit')].action = "token_generated"
             /\ audit'[Len(audit')].competitor_id = id
             /\ audit'[Len(audit')].new_value = Some([token |-> new])
             /\ Len(audit) >= 1
             /\ audit[Len(audit)].action = "token_revoked"
             /\ audit[Len(audit)].competitor_id = id
             /\ audit[Len(audit)].previous_value = Some([token |-> old])
    ]_vars

\* ------------------------------------------------------------------------
\* Token requests served on both request slots

NextTokens ==
  \E p \in Procs :
    \/ IssueTokenBegin(p)
    \/ IssueTokenSelect(p)
    \/ IssueTokenRevoke(p)
    \/ IssueTokenRevokeAudit(p)
    \/ IssueTokenGenerate(p)
    \/ IssueTokenUpdate(p)
    \/ IssueTokenInsert(p)
    \/ IssueTokenAudit(p)

SpecTokens == Init /\ [][NextTokens]_vars

\* The token values of the unrevoked qr_tokens rows of a competitor.
UnrevokedTokens(competitorId) ==
  {t.token : t \in {x \in qr_tokens :
                      x.competitor_id = competitorId /\ ~x.revoked}}

\* C29: in every state at most one token value resolves to a competitor in
\* a station lookup: the unrevoked qr_tokens rows of the competitor carry
\* one value, and it is the competitor's current qr_token if one is set.
C29_AtMostOneActiveToken ==
  \A c \in competitors :
    /\ Cardinality(ActiveTokens(c.id)) <= 1
    /\ Cardinality(UnrevokedTokens(c.id)) <= 1
    /\ c.qr_token # Null => UnrevokedTokens(c.id) \subseteq {c.qr_token[1]}

\* ------------------------------------------------------------------------
\* /auth: login, refresh and logout, served one at a time.  The clock is
\* counted in seconds, the unit of a token's iat and exp.

\* The clock stops here.
MaxNow == 3

ACCESS_TOKEN_TTL_SECONDS == 1

REFRESH_TOKEN_TTL_SECONDS == 2

JWT_SECRET == "JWT_SECRET"

REFRESH_TOKEN_SECRET == "REFRESH_TOKEN_SECRET"

\* The users that log in: judge u1, active, assigned in event e1.
AuthUsers == {a \in Actors : a.userId = "u1"}

\* jwt.sign(payload, secret, { expiresIn }): the token is a function of the
\* payload, the secret and the second it is signed in.
sign(payload, secret, expiresIn) ==
  [payload |-> payload, secret |-> secret, iat |-> now, exp |-> now + expiresIn]

\* jwt.verify(token, secret): the signature is checked, then exp.
verify(token, secret) == token.secret = secret /\ now < token.exp

\* A string that is no token of this server.
Garbage ==
  [payload |-> [type |-> "none"], secret |-> "none", iat |-> 0, exp |-> 0]

\* tokenPayload of login and refresh.
tokenPayload(user, sessionId) ==
  [sub |-> user.userId, eventId |-> user.eventId, role |-> user.role,
   sessionId |-> sessionId, nodeIds |-> user.nodeIds,
   allowedCategories |-> user.allowedCategories]

createAccessToken(payload) ==
  sign(payload @@ [type |-> "access"], JWT_SECRET, ACCESS_TOKEN_TTL_SECONDS)

createRefreshToken(payload) ==
  sign(payload @@ [type |-> "refresh"], REFRESH_TOKEN_SECRET,
       REFRESH_TOKEN_TTL_SECONDS)

\* sha256 of the token: different tokens have different hashes.
hashRefreshToken(token) == <<"sha256", token>>

\* A second passes.
Tick ==
  /\ now < MaxNow
  /\ now' = now + 1
  /\ UNCHANGED <<attempts, audit, nextId, calls, pc, req, loc, sent, rankings, competitors, qr_tokens, pageVars, sessions, issued>>

\* What fails with a 500 when the storage fails while the user, the event,
\* the assignments and the event context are read.  None of these tables
\* changes, so the queries are not interleaving points.
LoginContextFailures ==
  {"Event not found", "Failed to load user assignments",
   "Failed to load categories", "Failed to load nodes"}

RefreshContextFailures == LoginContextFailures \cup {"User not found"}

\* POST /auth/login arrives: the user is read and the password verified.
LoginBegin(p) ==
  /\ FirstFree(p)
  /\ calls < MaxCalls
  /\ calls' = calls + 1
  /\ UNCHANGED <<attempts, audit, nextId, rankings, competitors, qr_tokens, pageVars, authVars>>
  /\ \E user \in AuthUsers, passwordOk \in BOOLEAN :
       \/ Throw(p, HttpError(500, "Invalid credentials"))
       \/ IF ~passwordOk
            THEN Throw(p, HttpError(401, "Invalid credentials"))
            ELSE /\ pc' = [pc EXCEPT ![p] = "loginContext"]
                 /\ req' = [req EXCEPT ![p] = [route |-> "login", auth |-> user]]
                 /\ loc' = [loc EXCEPT ![p] = NoLoc]
                 /\ sent' = NoRes

\* The event, the assignments and the event context answer; the session id
\* is drawn, an id no other session has, and the tokens are signed.
LoginContext(p) ==
  /\ pc[p] = "loginContext"
  /\ UNCHANGED <<attempts, audit, calls, rankings, competitors, qr_tokens, pageVars, authVars>>
  /\ \/ /\ \E m \in LoginContextFailures : Throw(p, HttpError(500, m))
        /\ UNCHANGED nextId
     \/ LET sessionId == nextId
            payload == tokenPayload(req[p].auth, sessionId)
        IN /\ nextId' = nextId + 1
           /\ Goto(p, "sessionInsert",
                   [loc[p] EXCEPT !.accessToken = Some(createAccessToken(payload)),
                                  !.refreshToken = Some(createRefreshToken(payload)),
                                  !.refreshExpiresAt =
                                     Some(now + REFRESH_TOKEN_TTL_SECONDS)])

\* The insert into user_sessions answers, then the response is sent.
LoginInsert(p) ==
  /\ pc[p] = "sessionInsert"
  /\ UNCHANGED <<attempts, audit, nextId, calls, rankings, competitors, qr_tokens, pageVars, now>>
  /\ \/ /\ Throw(p, HttpError(500, "Failed to create session"))
        /\ UNCHANGED <<sessions, issued>>
     \/ /\ sessions' = sessions \cup
             { [id |-> loc[p].refreshToken[1].payload.sessionId,
                user_id |-> req[p].auth.userId,
                event_id |-> req[p].auth.eventId,
                role |-> req[p].auth.role,
                refresh_token_hash |-> hashRefreshToken(loc[p].refreshToken[1]),
                expires_at |-> loc[p].refreshExpiresAt[1],
                revoked |-> FALSE] }
        /\ issued' = issued \cup {loc[p].accessToken[1], loc[p].refreshToken[1]}
        /\ Finish(p, JsonResponse(p, 200,
                       [accessToken |-> loc[p].accessToken[1],
                        refreshToken |-> loc[p].refreshToken[1]]))

\* POST /auth/refresh arrives with a token the server has handed out, or
\* with something else: the token is verified.
RefreshBegin(p) ==
  /\ FirstFree(p)
  /\ calls < MaxCalls
  /\ calls' = calls + 1
  /\ UNCHANGED <<attempts, audit, nextId, rankings, competitors, qr_tokens, pageVars, authVars>>
  /\ \E refreshToken \in issued \cup {Garbage} :
       IF ~verify(refreshToken, REFRESH_TOKEN_SECRET)
            \/ refreshToken.payload.type # "refresh"
         THEN Throw(p, HttpError(401, "Invalid refresh token"))
         ELSE /\ pc' = [pc EXCEPT ![p] = "sessionSelect"]
              /\ req' = [req EXCEPT ![p] =
                           [route |-> "refresh", refreshToken |-> refreshToken]]
              /\ loc' = [loc EXCEPT ![p] = NoLoc]
              /\ sent' = NoRes

\* The session query answers and the session is checked.
RefreshSelect(p) ==
  /\ pc[p] = "sessionSelect"
  /\ UNCHANGED <<attempts, audit, nextId, calls, rankings, competitors, qr_tokens, pageVars, authVars>>
  /\ LET payload == req[p].refreshToken.payload
         found == {s \in sessions : s.id = payload.sessionId /\ s.user_id = payload.sub}
     IN \/ Throw(p, HttpError(500, "Session not found"))
        \/ IF found = {}
             THEN Throw(p, HttpError(401, "Session not found"))
             ELSE LET session == CHOOSE s \in found : TRUE IN
                  IF session.revoked
                    THEN Throw(p, HttpError(401, "Session revoked"))
                  ELSE IF session.expires_at < now
                    THEN Throw(p, HttpError(401, "Session expired"))
                  ELSE IF hashRefreshToken(req[p].refreshToken)
                            # session.refresh_token_hash
                    THEN Throw(p, HttpError(401, "Refresh token mismatch"))
                  ELSE Goto(p, "refreshContext",
                            [loc[p] EXCEPT !.session = Some(session)])

\* The user, the event, the assignments and the event context answer; the
\* new tokens are signed.
RefreshContext(p) ==
  /\ pc[p] = "refreshContext"
  /\ UNCHANGED <<attempts, audit, nextId, calls, rankings, competitors, qr_tokens, pageVars, authVars>>
  /\ \/ \E m \in RefreshContextFailures : Throw(p, HttpError(500, m))
     \/ LET user == CHOOSE u \in AuthUsers :
                      u.userId = req[p].refreshToken.payload.sub
            payload == tokenPayload(user, loc[p].session[1].id)
        IN Goto(p, "sessionUpdate",
                [loc[p] EXCEPT !.accessToken = Some(createAccessToken(payload)),
                               !.refreshToken = Some(createRefreshToken(payload)),
                               !.refreshExpiresAt =
                                  Some(now + REFRESH_TOKEN_TTL_SECONDS)])

\* The update of the session answers, then the response is sent.
RefreshUpdate(p) ==
  /\ pc[p] = "sessionUpdate"
  /\ UNCHANGED <<attempts, audit, nextId, calls, rankings, competitors, qr_tokens, pageVars, now>>
  /\ \/ /\ Throw(p, HttpError(500, "Failed to update session"))
        /\ UNCHANGED <<sessions, issued>>
     \/ /\ sessions' =
             { IF s.id = loc[p].session[1].id
                 THEN [s EXCEPT
                         !.refresh_token_hash = hashRefreshToken(loc[p].refreshToken[1]),
                         !.expires_at = loc[p].refreshExpiresAt[1]]
                 ELSE s : s \in sessions }
        /\ issued' = issued \cup {loc[p].accessToken[1], loc[p].refreshToken[1]}
        /\ Finish(p, JsonResponse(p, 200,
                       [accessToken |-> loc[p].accessToken[1],
                        refreshToken |-> loc[p].refreshToken[1]]))

\* POST /auth/logout arrives: authenticate verifies the access token.
LogoutBegin(p) ==
  /\ FirstFree(p)
  /\ calls < MaxCalls
  /\ calls' = calls + 1
  /\ UNCHANGED <<attempts, audit, nextId, rankings, competitors, qr_tokens, pageVars, authVars>>
  /\ \E accessToken \in issued \cup {Garbage}, allDevices \in BOOLEAN :
       IF ~verify(accessToken, JWT_SECRET)
         THEN Throw(p, HttpError(401, "Invalid or expired token"))
         ELSE /\ pc' = [pc EXCEPT ![p] = "sessionRevoke"]
              /\ req' = [req EXCEPT ![p] =
                           [route |-> "logout",
                            auth |-> [userId |-> accessToken.payload.sub,
                                      eventId |-> accessToken.payload.eventId,
                                      sessionId |-> accessToken.payload.sessionId],
                            allDevices |-> allDevices]]
              /\ loc' = [loc EXCEPT ![p] = NoLoc]
              /\ sent' = NoRes

\* The update that sets revoked_at answers.
LogoutRevoke(p) ==
  /\ pc[p] = "sessionRevoke"
  /\ UNCHANGED <<attempts, audit, nextId, calls, rankings, competitors, qr_tokens, pageVars, now, issued>>
  /\ \/ /\ Throw(p, HttpError(500, IF req[p].allDevices
                                     THEN "Failed to revoke sessions"
                                     ELSE "Failed to revoke session"))
        /\ UNCHANGED sessions
     \/ /\ sessions' =
             { IF IF req[p].allDevices
                    THEN /\ s.user_id = req[p].auth.userId
                         /\ s.event_id = req[p].auth.eventId
                         /\ ~s.revoked
                    ELSE s.id = req[p].auth.sessionId
                 THEN [s EXCEPT !.revoked = TRUE]
                 ELSE s : s \in sessions }
        /\ Finish(p, JsonResponse(p, 200, "success"))

NextAuth ==
  \/ Tick
  \/ \E p \in {1} :
       \/ LoginBegin(p)
       \/ LoginContext(p)
       \/ LoginInsert(p)
       \/ RefreshBegin(p)
       \/ RefreshSelect(p)
       \/ RefreshContext(p)
       \/ RefreshUpdate(p)
       \/ LogoutBegin(p)
       \/ LogoutRevoke(p)

SpecAuth == Init /\ [][NextAuth]_vars

\* The sessions a token is of.
SessionsOf(token) ==
  {s \in sessions : /\ s.id = token.payload.sessionId
                    /\ s.user_id = token.payload.sub}

\* A refresh presenting the token now would pass every check.
Accepted(token) ==
  /\ verify(token, REFRESH_TOKEN_SECRET)
  /\ token.payload.type = "refresh"
  /\ \E s \in SessionsOf(token) :
       /\ ~s.revoked
       /\ ~(s.expires_at < now)
       /\ s.refresh_token_hash = hashRefreshToken(token)

\* C30: when a refresh succeeds, the session holds the hash of the refresh
\* token in the response and the token that was presented is no longer
\* accepted, so a later refresh with it is rejected; and a refresh that
\* finds its session revoked or expired is rejected and leaves the session
\* rows as they are.
C30_RefreshRotates ==
  [][ \A p \in {1}, used \in issued :
        /\ ( /\ pc[p] = "sessionUpdate"
             /\ req[p].refreshToken = used
             /\ sent'.slot = p
             /\ sent'.status = 200 ) =>
               /\ \A s \in SessionsOf(used)' :
                    s.refresh_token_hash = hashRefreshToken(sent'.body.refreshToken)
               /\ SessionsOf(used)' # {}
               /\ ~Accepted(used)'
        /\ ( /\ pc[p] = "sessionSelect"
             /\ pc'[p] # pc[p]
             /\ req[p].refreshToken = used
             /\ \E s \in SessionsOf(used) : s.revoked \/ s.expires_at < now ) =>
               /\ sessions' = sessions
               /\ sent'.slot = p
               /\ \/ sent'.status = 401
                  \/ StorageFailure(sent', "Session not found")
    ]_vars

\* ------------------------------------------------------------------------
\* GET /calculator/competitors/:competitorId and the node rankings

\* .order('attempt_number', { ascending: true }) over the attempts of one
\* node: the rows as a list.
RECURSIVE orderByAttemptNumber(_)
orderByAttemptNumber(rows) ==
  IF rows = {} THEN <<>>
  ELSE LET first == CHOOSE x \in rows :
                      \A y \in rows : x.attempt_number <= y.attempt_number
       IN <<first>> \o orderByAttemptNumber(rows \ {first})

\* groupAttemptsByNode(attempts).get(nodeId) ?? []
groupAttemptsByNode(rows, nodeId) ==
  orderByAttemptNumber({a \in rows : a.node_id = nodeId})

\* timeAttempts.reduce(..., timeAttempts[0]): the attempt kept after the
\* first i elements.
RECURSIVE reduceBest(_, _)
reduceBest(timeAttempts, i) ==
  IF i = 0 THEN timeAttempts[1]
  ELSE LET min == reduceBest(timeAttempts, i - 1)
           attempt == timeAttempts[i]
       IN IF attempt.centiseconds[1] < min.centiseconds[1] THEN attempt ELSE min

\* Variant: the best attempt is the first timed attempt of the list.
computeBest_FirstTimed(list) ==
  LET timeAttempts ==
        SelectSeq(list, LAMBDA a : a.result_kind = "time" /\ a.centiseconds # Null)
      hasFault == \E i \in 1 .. Len(list) : list[i].result_kind = "fault"
  IN IF Len(timeAttempts) = 0
       THEN [status |-> IF hasFault THEN "fault"
                        ELSE IF Len(list) > 0 THEN "incomplete" ELSE "missing",
             bestCentiseconds |-> Null, attemptId |-> Null]
       ELSE [status |-> "time",
             bestCentiseconds |-> timeAttempts[1].centiseconds,
             attemptId |-> Some(timeAttempts[1].id)]

\* computeBest(attempts)
computeBest(list) ==
  LET timeAttempts ==
        SelectSeq(list, LAMBDA a : a.result_kind = "time" /\ a.centiseconds # Null)
      hasFault == \E i \in 1 .. Len(list) : list[i].result_kind = "fault"
  IN IF Len(timeAttempts) = 0
       THEN [status |-> IF hasFault THEN "fault"
                        ELSE IF Len(list) > 0 THEN "incomplete" ELSE "missing",
             bestCentiseconds |-> Null, attemptId |-> Null]
       ELSE LET best == reduceBest(timeAttempts, Len(timeAttempts))
            IN [status |-> "time",
                bestCentiseconds |-> best.centiseconds,
                attemptId |-> Some(best.id)]

\* The calculator of the event the rankings are of.
RankCalculator ==
  [userId |-> "u3", role |-> "calculator", eventId |-> "e1",
   nodeIds |-> {}, allowedCategories |-> {}]

\* The competitors whose detail the calculator opens: one of category N,
\* with three nodes, and one of category M, with one.
DetailCompetitors == {c \in RankCompetitors : c.id \in {"k1", "k4"}}

DetailDb ==
  [competitors |-> DetailCompetitors, nodes |-> RankNodes,
   category_nodes |-> RankCategoryNodes, attempts |-> attempts]

\* The ids asked for: those of the competitors, and one that is of no
\* competitor.
DetailIds == {c.id : c \in DetailCompetitors} \cup {"k9"}

\* GET /calculator/competitors/:competitorId.  The competitors and the
\* nodes are not written while the rankings are kept, so the handler is
\* decided by its read of the attempts.
GetCompetitor ==
  /\ \E competitorId \in DetailIds :
       LET found == {c \in DetailDb.competitors : c.id = competitorId}
           nodes == {n \in DetailDb.nodes : n.event_id = RankCalculator.eventId}
           rows == {a \in attempts : a.competitor_id = competitorId}
       IN \/ /\ \A c \in found : c.event_id # RankCalculator.eventId
             /\ sent' = errorHandler(1, HttpError(404, "Competitor not found"))
          \/ /\ \E c \in found : c.event_id = RankCalculator.eventId
             /\ \/ sent' = errorHandler(1, HttpError(500, "Failed to load attempts"))
                \/ sent' = JsonResponse(1, 200,
                     [competitor |-> competitorId,
                      nodes |-> {n.id : n \in nodes},
                      bestByNode |->
                        [n \in {x.id : x \in nodes} |->
                           computeBest(groupAttemptsByNode(rows, n))]])
  /\ UNCHANGED <<attempts, audit, nextId, calls, pc, req, loc, rankings, competitors, qr_tokens, pageVars, authVars>>

RecordDetailResult == RecordResultIn(DetailDb, RankResults, MaxRows)

NextDetail == RecordDetailResult \/ AmendResult \/ GetCompetitor

SpecDetail == Init /\ [][NextDetail]_vars

\* GET /calculator/competitors/:competitorId has just answered with the
\* detail of competitor id.
DetailAnswered(id) ==
  /\ attempts' = attempts
  /\ sent' # sent
  /\ sent'.status = 200
  /\ sent'.body.competitor = id

\* C31: for the attempts of a competitor at a node of its category, none
\* included, the status and bestCentiseconds computeBest gives in the
\* competitor detail are the status and best_centiseconds of the row of
\* category_node_rankings for that competitor and node.
C31_ComputeBestAgreesWithView ==
  [][ \A c \in DetailCompetitors :
        DetailAnswered(c.id) =>
          \A r \in category_node_rankings(DetailDb) :
            r.competitor_id = c.id =>
              /\ r.node_id \in DOMAIN sent'.body.bestByNode
              /\ sent'.body.bestByNode[r.node_id].status = r.status
              /\ sent'.body.bestByNode[r.node_id].bestCentiseconds = r.best_centiseconds
    ]_vars

\* The detail shown covers a node with two timed attempts of which the
\* second is the faster, a node with a fault only and a node without an
\* attempt.
C31_Witness ==
  /\ sent.status = 200
  /\ "body" \in DOMAIN sent
  /\ sent.body.competitor = "k1"
  /\ LET rows == {a \in attempts : a.competitor_id = "k1"}
     IN /\ sent.body.bestByNode =
             [n \in sent.body.nodes |-> computeBest(groupAttemptsByNode(rows, n))]
        /\ \E a, b \in rows : /\ a.node_id = "AMB" /\ b.node_id = "AMB"
                             /\ a.attempt_number < b.attempt_number
                             /\ a.result_kind = "time" /\ b.result_kind = "time"
                             /\ b.centiseconds[1] < a.centiseconds[1]
        /\ sent.body.bestByNode["AMB"].status = "time"
        /\ sent.body.bestByNode["LOD"].status = "fault"
        /\ sent.body.bestByNode["STF"].status = "missing"

\* ------------------------------------------------------------------------
\* The audit trail as the history of an attempt (under SpecStations)

\* The audit entries of an attempt, in the order they were appended.
AuditTrail(attemptId) == SelectSeq(audit, LAMBDA e : e.attempt_id = attemptId)

\* C32: when no call is in flight, the audit trail of every attempt is a
\* consistent history: the previous value of every attempt_updated entry is
\* the new value of the entry before it for the same attempt, and the new
\* value of the last entry is the row as stored.
C32_AuditTrailIsHistory ==
  (\A p \in Procs : pc[p] = "idle") =>
    \A r \in attempts :
      LET trail == AuditTrail(r.id) IN
        /\ \A i \in 1 .. Len(trail) :
             trail[i].action = "attempt_updated" =>
               /\ i > 1
               /\ trail[i].previous_value = trail[i - 1].new_value
        /\ Len(trail) > 0 => trail[Len(trail)].new_value = Some(r)

\* ------------------------------------------------------------------------
\* A non-finish that becomes a finish (under SpecFinish)

\* Two competitors of one category, with times and faults recorded and
\* corrected.
RecordFinishResult == RecordResultIn(PairDb, RankResults, MaxPairRows)

AmendFinishResult == AmendResultIn(RankResults)

NextFinish == RecordFinishResult \/ AmendFinishResult \/ ReadPairRankings

SpecFinish == Init /\ [][NextFinish]_vars

\* The nodes that count to the overall score.
NodesCounted == {n \in PairNodes : n.counts_to_overall}

\* The competitor has a time at the node.
HasTimeAt(c, n) ==
  \E a \in attempts : /\ a.competitor_id = c.id
                      /\ a.node_id = n.id
                      /\ a.result_kind = "time"

\* The step turns the competitor's non-finish at the node, missing or
\* fault, into a time.  A step writes one row, so every other attempt stays
\* as it is.
NonFinishBecomesTime(c, n) ==
  /\ \E cn \in PairCategoryNodes : /\ cn.event_id = c.event_id
                                   /\ cn.category_code = c.category_code
                                   /\ cn.node_id = n.id
  /\ ~HasTimeAt(c, n)
  /\ HasTimeAt(c, n)'

\* The rows of a competitor in category_leaderboards over a database.
LeaderboardRowsOf(db, c) ==
  {r \in category_leaderboards(db) : r.competitor_id = c.id}

\* The database after the step.
PairDbAfter == [PairDb EXCEPT !.attempts = attempts']

\* C33 as stated: a non-finish at a counted node that becomes a time never
\* gives the competitor a larger overall_rank than it had.
C33_FinishNeverHurtsRank ==
  [][ \A c \in PairCompetitors, n \in NodesCounted :
        NonFinishBecomesTime(c, n) =>
          \A b \in LeaderboardRowsOf(PairDb, c), a \in LeaderboardRowsOf(PairDbAfter, c) :
            a.overall_rank <= b.overall_rank
    ]_vars

\* C33: a non-finish at a counted node that becomes a time never gives the
\* competitor a larger placement_sum than it had: the competitor has a row
\* in the leaderboard before and after, and the sum of the row after is at
\* most the sum of the row before.
C33_FinishNeverRaisesPlacementSum ==
  [][ \A c \in PairCompetitors, n \in NodesCounted :
        NonFinishBecomesTime(c, n) =>
          /\ LeaderboardRowsOf(PairDb, c) # {}
          /\ LeaderboardRowsOf(PairDbAfter, c) # {}
          /\ \A b \in LeaderboardRowsOf(PairDb, c), a \in LeaderboardRowsOf(PairDbAfter, c) :
               a.placement_sum <= b.placement_sum
    ]_vars

\* Competitor k2 has finished node LOD last of all: both competitors have
\* the same placement sum, and k2, with the larger sum of times, is ranked
\* behind k1.
C33_Witness ==
  /\ Cardinality(attempts) = 3
  /\ \E x, y \in attempts :
       /\ x.competitor_id = "k2" /\ x.node_id = "LOD" /\ x.result_kind = "time"
       /\ y.competitor_id = "k1" /\ y.node_id = "LOD" /\ y.result_kind = "time"
       /\ y.centiseconds[1] < x.centiseconds[1]
  /\ \E r1, r2 \in category_leaderboards(PairDb) :
       /\ r1.competitor_id = "k1" /\ r2.competitor_id = "k2"
       /\ r1.placement_sum = r2.placement_sum
       /\ r1.overall_rank = 1 /\ r2.overall_rank = 2

\* ------------------------------------------------------------------------
\* GET /leaderboard/events/:slug

\* The events table, and the slugs asked for.
Events == {[id |-> "e1", slug |-> "draci-smycka"]}

Slugs == {"draci-smycka", "unknown"}

\* A GET /leaderboard/events/:slug request arrives.
GetLeaderboardBegin(p) ==
  /\ pc[p] = "idle"
  /\ \E slug \in Slugs :
       /\ pc' = [pc EXCEPT ![p] = "eventSelect"]
       /\ req' = [req EXCEPT ![p] = [route |-> "leaderboard", slug |-> slug]]
       /\ loc' = [loc EXCEPT ![p] = NoLoc]
       /\ sent' = NoRes
  /\ UNCHANGED <<attempts, audit, nextId, calls, rankings, competitors, qr_tokens, pageVars, authVars>>

\* The event query answers: 404 when no event has the slug.
GetLeaderboardEvent(p) ==
  /\ pc[p] = "eventSelect"
  /\ LET found == {e \in Events : e.slug = req[p].slug} IN
       \/ Throw(p, HttpError(500, "Event not found"))
       \/ IF found = {}
            THEN Throw(p, HttpError(404, "Event not found"))
            ELSE Goto(p, "competitorsSelect",
                      [loc[p] EXCEPT !.event = Some(CHOOSE e \in found : TRUE)])
  /\ UNCHANGED <<attempts, audit, nextId, calls, rankings, competitors, qr_tokens, pageVars, authVars>>

\* The competitors query answers.
GetLeaderboardCompetitors(p) ==
  /\ pc[p] = "competitorsSelect"
  /\ \/ Throw(p, HttpError(500, "Failed to load competitors"))
     \/ Goto(p, "categoryLeaderboardSelect",
             [loc[p] EXCEPT !.competitorMap =
                Some({c.id : c \in {x \in PairDb.competitors :
                                      x.event_id = loc[p].event[1].id}})])
  /\ UNCHANGED <<attempts, audit, nextId, calls, rankings, competitors, qr_tokens, pageVars, authVars>>

\* The query of category_leaderboards answers.
GetLeaderboardCategory(p) ==
  /\ pc[p] = "categoryLeaderboardSelect"
  /\ \/ Throw(p, HttpError(500, "Failed to load category leaderboards"))
     \/ Goto(p, "nodeRankingsSelect",
             [loc[p] EXCEPT !.categoryLeaderboardResponse =
                Some({r \in category_leaderboards(PairDb) :
                        r.event_id = loc[p].event[1].id})])
  /\ UNCHANGED <<attempts, audit, nextId, calls, rankings, competitors, qr_tokens, pageVars, authVars>>

\* The query of category_node_rankings answers.
GetLeaderboardNodes(p) ==
  /\ pc[p] = "nodeRankingsSelect"
  /\ \/ Throw(p, HttpError(500, "Failed to load node rankings"))
     \/ Goto(p, "relayLeaderboardSelect",
             [loc[p] EXCEPT !.nodeRankingsResponse =
                Some({r \in category_node_rankings(PairDb) :
                        r.event_id = loc[p].event[1].id})])
  /\ UNCHANGED <<attempts, audit, nextId, calls, rankings, competitors, qr_tokens, pageVars, authVars>>

\* The body of the response: every row of category_leaderboards with its
\* competitor and with the node rankings of its category and competitor,
\* and every row of relay_leaderboards with its competitor.
LeaderboardBody(event, competitorMap, categoryRows, nodeRows, relayRows) ==
  [event |-> event,
   categoryLeaderboards |->
     { [row |-> row,
        competitor |-> IF row.competitor_id \in competitorMap
                         THEN Some(row.competitor_id) ELSE Null,
        nodes |-> {entry \in nodeRows :
                     /\ entry.category_code = row.category_code
                     /\ entry.competitor_id = row.competitor_id}]
       : row \in categoryRows },
   relayLeaderboards |->
     { [row |-> row,
        competitor |-> IF row.competitor_id \in competitorMap
                         THEN Some(row.competitor_id) ELSE Null]
       : row \in relayRows }]

\* The query of relay_leaderboards answers, and the handler responds.
GetLeaderboardRelay(p) ==
  /\ pc[p] = "relayLeaderboardSelect"
  /\ \/ Throw(p, HttpError(500, "Failed to load relay leaderboards"))
     \/ Finish(p, JsonResponse(p, 200,
          LeaderboardBody(loc[p].event[1],
                          loc[p].competitorMap[1],
                          loc[p].categoryLeaderboardResponse[1],
                          loc[p].nodeRankingsResponse[1],
                          {r \in relay_leaderboards(PairDb) :
                             r.event_id = loc[p].event[1].id})))
  /\ UNCHANGED <<attempts, audit, nextId, calls, rankings, competitors, qr_tokens, pageVars, authVars>>

\* The results recorded and corrected while the leaderboard is served.
BoardResults ==
  { [kind |-> "time", centiseconds |-> 1200],
    [kind |-> "fault", faultCode |-> "333"] }

RecordBoardResult == RecordResultIn(PairDb, BoardResults, MaxPairRows)

AmendBoardResult == AmendResultIn(BoardResults)

\* One leaderboard request at a time, while results are recorded and
\* corrected.
NextBoard ==
  \/ RecordBoardResult
  \/ AmendBoardResult
  \/ \E p \in {1} :
       \/ GetLeaderboardBegin(p)
       \/ GetLeaderboardEvent(p)
       \/ GetLeaderboardCompetitors(p)
       \/ GetLeaderboardCategory(p)
       \/ GetLeaderboardNodes(p)
       \/ GetLeaderboardRelay(p)

SpecBoard == Init /\ [][NextBoard]_vars

\* The response is a leaderboard.
IsLeaderboard(r) ==
  /\ r.status = 200
  /\ "body" \in DOMAIN r
  /\ "categoryLeaderboards" \in DOMAIN r.body

\* The nested node rankings of an entry at the nodes that count to the
\* overall score.
CountedEntries(entry) ==
  {x \in entry.nodes : \E n \in PairNodes : n.id = x.node_id /\ n.counts_to_overall}

\* C34: in every leaderboard response, the placement_sum of each entry is
\* the sum of the placements of the counted nodes nested in the entry, and
\* the entries and their nested node rankings are those of one ledger: the
\* tie-break sum is the sum of the nested tie-break values (0 for a node
\* that is not counted, NULL when no nested value is there to add), and
\* the entry has a non-time exactly when a nested counted node has a
\* status other than time.
C34_ResponseIsSnapshot ==
  IsLeaderboard(sent) =>
    \A entry \in sent.body.categoryLeaderboards :
      LET counted == CountedEntries(entry)
          nodesOf == {x.node_id : x \in entry.nodes}
          rowAt == [n \in nodesOf |-> CHOOSE x \in entry.nodes : x.node_id = n]
          tieAt == [n \in nodesOf |->
                      IF rowAt[n] \in counted
                        THEN rowAt[n].tie_break_centiseconds ELSE Some(0)]
          added == {n \in nodesOf : tieAt[n] # Null}
      IN /\ entry.row.placement_sum =
              SumOver([n \in nodesOf |->
                         IF rowAt[n] \in counted THEN rowAt[n].placement ELSE 0],
                      nodesOf)
         /\ entry.row.tie_break_centiseconds_sum =
              IF added = {} THEN Null
              ELSE Some(SumOver([n \in added |-> tieAt[n][1]], added))
         /\ entry.row.has_non_time = \E x \in counted : x.status # "time"

\* ------------------------------------------------------------------------
\* The range of the placements (under SpecRank)

\* C35: in every group of category_node_rankings every placement lies in
\* 1 .. competitor_count and the placement of every row with a time is at
\* most the placement of every row without one; and in every row of
\* category_leaderboards the placement_sum lies between counted_nodes and
\* counted_nodes times the number of competitors of the category.
C35_PlacementsInRange ==
  rankings # Null =>
    /\ \A cn \in RankCategoryNodes :
         /\ \A r \in GroupRows(cn) :
              /\ r.placement \in 1 .. r.competitor_count
              /\ r.competitor_count = Cardinality(GroupCompetitors(cn))
         /\ \A f \in Finishers(cn), x \in GroupRows(cn) \ Finishers(cn) :
              f.placement <= x.placement
    /\ \A t \in rankings[1].category_leaderboards :
         LET count == Cardinality({c \in RankCompetitors :
                                     /\ c.event_id = t.event_id
                                     /\ c.category_code = t.category_code})
         IN /\ t.counted_nodes <= t.placement_sum
            /\ t.placement_sum <= t.counted_nodes * count

\* The rankings read show a node where three competitors are placed 1, 2
\* and 3 (the last without a time), and a competitor whose placement_sum is
\* the largest there can be.
C35_Witness ==
  /\ rankings # Null
  /\ \E cn \in RankCategoryNodes :
       /\ {r.placement : r \in GroupRows(cn)} = {1, 2, 3}
       /\ GroupRows(cn) \ Finishers(cn) # {}
  /\ \E t \in rankings[1].category_leaderboards :
       /\ t.counted_nodes = 2
       /\ t.placement_sum = 6

\* ------------------------------------------------------------------------
\* /auth with two requests in flight

NextAuthPair ==
  \/ Tick
  \/ \E p \in Procs :
       \/ LoginBegin(p)
       \/ LoginContext(p)
       \/ LoginInsert(p)
       \/ RefreshBegin(p)
       \/ RefreshSelect(p)
       \/ RefreshContext(p)
       \/ RefreshUpdate(p)
       \/ LogoutBegin(p)
       \/ LogoutRevoke(p)

SpecAuthPair == Init /\ [][NextAuthPair]_vars

\* The token is the refresh token its session holds, among the given rows
\* of sessions.
CurrentIn(rows, token) ==
  \E s \in rows : /\ s.id = token.payload.sessionId
                  /\ s.user_id = token.payload.sub
                  /\ s.refresh_token_hash = hashRefreshToken(token)

\* The step answers the refresh of slot p with success.
RefreshSucceeds(p) ==
  /\ pc[p] = "sessionUpdate"
  /\ sent'.slot = p
  /\ sent'.status = 200

\* C36: a refresh token is used once, whatever the overlap of the
\* requests: a refresh succeeds only with the token its session holds at
\* that moment, so of two refreshes presenting one token at most one
\* succeeds; and the token a successful refresh returned stays the token of
\* its session until a successful refresh presents it, so the next refresh
\* with it is accepted.
C36_SingleUseUnderConcurrency ==
  [][ /\ \A p \in Procs :
           RefreshSucceeds(p) => CurrentIn(sessions, req[p].refreshToken)
      /\ \A token \in issued :
           ( /\ token.payload.type = "refresh"
             /\ CurrentIn(sessions, token)
             /\ ~CurrentIn(sessions', token) ) =>
               \E p \in Procs : RefreshSucceeds(p) /\ req[p].refreshToken = token
    ]_vars

\* ------------------------------------------------------------------------
\* Who is on the category leaderboard (under SpecRank)

\* The category of the competitor has a node assigned.
HasCategoryNode(c) ==
  \E cn \in RankCategoryNodes : /\ cn.event_id = c.event_id
                                /\ cn.category_code = c.category_code

\* C37: every competitor whose category has a node assigned has exactly
\* one row in category_leaderboards, in the leaderboard of its event and
\* category, also when it has no attempt; and the overall_rank values of
\* every (event, category) are exactly 1 .. k, without a gap.
C37_EveryCompetitorRankedOnce ==
  rankings # Null =>
    /\ \A c \in RankCompetitors :
         HasCategoryNode(c) =>
           LET mine == {t \in rankings[1].category_leaderboards :
                          t.competitor_id = c.id}
           IN /\ Cardinality(mine) = 1
              /\ \A t \in mine : /\ t.event_id = c.event_id
                                 /\ t.category_code = c.category_code
    /\ \A t \in rankings[1].category_leaderboards :
         LET ranks == {x.overall_rank : x \in LeaderboardOf(t.event_id, t.category_code)}
         IN ranks = 1 .. Cardinality(ranks)

\* The rankings read are of a ledger where two competitors of category N
\* share the first rank, the third, without an attempt, follows at rank 2,
\* and the competitor of category M has no attempt either.
C37_Witness ==
  /\ rankings # Null
  /\ \A a \in attempts : a.competitor_id \in {"k1", "k2"}
  /\ \E x, y, z \in LeaderboardOf("e1", "N") :
       /\ x.competitor_id = "k1" /\ y.competitor_id = "k2" /\ z.competitor_id = "k3"
       /\ x.overall_rank = 1 /\ y.overall_rank = 1 /\ z.overall_rank = 2
  /\ \E t \in LeaderboardOf("e1", "M") : t.competitor_id = "k4" /\ t.overall_rank = 1

\* ------------------------------------------------------------------------
\* The status incomplete (under SpecDetail)

\* The database after the step.
DetailDbAfter == [DetailDb EXCEPT !.attempts = attempts']

\* C38: after every step, every row of category_node_rankings of a
\* competitor and node with an attempt on the ledger has status time or
\* fault; and whenever the competitor detail is answered, computeBest gives
\* status time or fault at every node where the competitor has an attempt.
\* The status incomplete does not occur.
C38_NeverIncomplete ==
  [][ /\ \A r \in category_node_rankings(DetailDbAfter) :
           /\ (\E a \in attempts' : /\ a.competitor_id = r.competitor_id
                                    /\ a.node_id = r.node_id)
                => r.status \in {"time", "fault"}
           /\ r.status # "incomplete"
      /\ \A c \in DetailCompetitors :
           DetailAnswered(c.id) =>
             \A n \in DOMAIN sent'.body.bestByNode :
               /\ (\E a \in attempts : a.competitor_id = c.id /\ a.node_id = n)
                    => sent'.body.bestByNode[n].status \in {"time", "fault"}
               /\ sent'.body.bestByNode[n].status # "incomplete"
    ]_vars

\* The detail shown is of a competitor with two faults at one node and a
\* time at another: the statuses are fault and time.
C38_Witness ==
  /\ sent.status = 200
  /\ "body" \in DOMAIN sent
  /\ sent.body.competitor = "k1"
  /\ LET rows == {a \in attempts : a.competitor_id = "k1"}
     IN /\ Cardinality({a \in rows : a.node_id = "AMB" /\ a.result_kind = "fault"}) = 2
        /\ \E a \in rows : a.node_id = "LOD" /\ a.result_kind = "time"
        /\ sent.body.bestByNode["AMB"].status = "fault"
        /\ sent.body.bestByNode["LOD"].status = "time"
        /\ \E r \in category_node_rankings(DetailDb) :
             r.competitor_id = "k1" /\ r.node_id = "AMB" /\ r.status = "fault"

\* ------------------------------------------------------------------------
\* The range of the parsed time (under SpecForm)

\* C39: what parseTimeInput returns for the text of the time field is null
\* or an integer in [0, MAX_TIME_CENTISECONDS], the range the server's
\* schema accepts.
C39_ParsedWithinRange ==
  parsed.done =>
    \/ parsed.value = Null
    \/ /\ parsed.value[1] \in 0 .. MAX_TIME_CENTISECONDS
       /\ ResultValid([kind |-> "time", centiseconds |-> parsed.value[1]])

====
